---------------------------- MODULE Spec2Model ----------------------------
(***************************************************************************)
(* adt-to-fhir: the HL7 v2 ADT -> FHIR R4B mapping engine                  *)
(* (src/src/fhir/mapper.rs, patient.rs, encounter.rs, resources.rs).       *)
(*                                                                         *)
(* Representation of a parsed HL7 message (hl7_parser::Message):           *)
(*   msg[seg] = [present |-> BOOLEAN, n |-> number of fields,              *)
(*               f |-> (index :> raw value) for the non-empty fields]      *)
(* A scalar field is a string; a composite field is the tuple of its       *)
(* components ("a^^b" is <<"a", "", "b">>), a component with               *)
(* subcomponents the tuple of those; a timestamp or number field is the    *)
(* tuple of its characters: a digit d as d, a white space character as     *)
(* Blank, the signs as Plus and Minus, any other character as NonDigit.    *)
(* An empty field is "" (or <<>>), of length 0.                            *)
(* An instant is [day, second]: the day since 1970-01-01 (UTC) and the     *)
(* second of that day; the clock is in seconds since the Unix epoch.       *)
(* Option<T> is <<>> (None) or <<v>> (Some(v)); Result<T, E> is            *)
(* [ok |-> TRUE, val |-> v] or [ok |-> FALSE, err |-> e].                  *)
(*                                                                         *)
(* The consume loop of one worker (src/src/main.rs run) reads the records  *)
(* of one partition of the input topic, record i at offset i - 1;          *)
(* cursor is the number of records the stream has handed out, stored the   *)
(* offset stored for commit, output the records sent to the output topic.  *)
(***************************************************************************)
EXTENDS Integers, Sequences, FiniteSets, TLC

VARIABLES msg, config, resources, now, pc, p, e, result,
          partition, cursor, stored, output, worker, sending, run_result

\* The variables of one call of FhirMapper::map and those of the consume
\* loop of one worker (main.rs run).
mapvars == <<msg, config, resources, now, pc, p, e, result>>

loopvars == <<partition, cursor, stored, output, worker, sending, run_result>>

vars == <<msg, config, resources, now, pc, p, e, result,
          partition, cursor, stored, output, worker, sending, run_result>>

\* ------------------------------------------------------------------------
\* Option and Result
\* ------------------------------------------------------------------------
None == <<>>

Some(v) == <<v>>

IsSome(o) == Len(o) = 1

Ok(v) == [ok |-> TRUE, val |-> v]

Err(x) == [ok |-> FALSE, err |-> x]

\* A `let` binding: the body F applied to the value bound.
With(v, F(_)) == F(v)

\* The `?` operator: the continuation F applied to the value of an Ok
\* result, the error of an Err result returned as it is.
Try(r, F(_)) == IF r.ok THEN F(r.val) ELSE Err(r.err)

\* A character of a numeric field that is neither a decimal digit, nor
\* white space, nor a sign.
NonDigit == 10

\* A white space character (char::is_whitespace).
Blank == 11

\* The characters '+' and '-'.
Plus == 12

Minus == 13

\* ------------------------------------------------------------------------
\* HL7 access layer
\* ------------------------------------------------------------------------
\* Segment::field(i).raw_value() for a field the segment has.
raw_value(seg, i) == IF i \in DOMAIN seg.f THEN seg.f[i] ELSE ""

\* mapper.rs parse_field: a missing segment or a segment that ends before
\* the field is an error; an empty field is None.
parse_field(m, segment, field) ==
    IF ~m[segment].present
    THEN Err("Missing message segment " \o segment)
    ELSE IF field > m[segment].n
    THEN Err("Missing message field " \o ToString(field)
               \o " in segment " \o segment)
    ELSE With(raw_value(m[segment], field),
              LAMBDA raw : Ok(IF Len(raw) = 0 THEN None ELSE Some(raw)))

\* mapper.rs parse_component: component `component` (1-based) of a field,
\* None when the field has no such component or it is empty.
parse_component(field, component) ==
    IF component <= Len(field) /\ Len(field[component]) > 0
    THEN Some(field[component])
    ELSE None

\* mapper.rs parse_subcomponents: the non-empty subcomponents of a component,
\* None when the field has no such component.
parse_subcomponents(field, component) ==
    IF component <= Len(field)
    THEN Some(SelectSeq(field[component], LAMBDA s : Len(s) > 0))
    ELSE None

\* ------------------------------------------------------------------------
\* Event type
\* ------------------------------------------------------------------------
MessageTypeTable ==
    <<  <<"A01", "Admit">>, <<"A02", "Transfer">>, <<"A03", "Discharge">>,
        <<"A04", "Registration">>, <<"A05", "PreAdmit">>,
        <<"A06", "ChangeOutpatientToInpatient">>,
        <<"A07", "ChangeInpatientToOutpatient">>, <<"A08", "PatientUpdate">>,
        <<"A11", "CancelAdmitVisit">>, <<"A12", "CancelTransfer">>,
        <<"A13", "CancelDischarge">>, <<"A14", "PendingAdmit">>,
        <<"A27", "CancelPendingAdmit">>, <<"A28", "AddPersonInformation">>,
        <<"A29", "DeletePersonInformation">>, <<"A31", "ChangePersonData">>,
        <<"A34", "PatientMerge">>, <<"A40", "MergePatientRecords">>,
        <<"A45", "PatientReassignmentToSingleCase">>,
        <<"A47", "PatientReassignmentToAllCases">>,
        <<"A50", "UpdateEncounterNumber">>  >>

MessageType == { MessageTypeTable[i][2] : i \in DOMAIN MessageTypeTable }

\* A faulty Display for MessageType: the variant name instead of the code.
MessageType_to_string_variant(t) == t

\* impl Display for MessageType
MessageType_to_string(t) ==
    MessageTypeTable[CHOOSE j \in DOMAIN MessageTypeTable :
                       MessageTypeTable[j][2] = t][1]

\* impl FromStr for MessageType
MessageType_from_str(s) ==
    IF \E j \in DOMAIN MessageTypeTable : MessageTypeTable[j][1] = s
    THEN Ok(MessageTypeTable[CHOOSE j \in DOMAIN MessageTypeTable :
                               MessageTypeTable[j][1] = s][2])
    ELSE Err("Unknown message type: " \o s)

\* mapper.rs message_type: EVN.1 parsed as a MessageType.
message_type(m) ==
    IF ~m["EVN"].present
    THEN Err("Missing message type: missing ENV segment")
    ELSE IF m["EVN"].n < 1
    THEN Err("Missing message type: missing message type segment")
    ELSE MessageType_from_str(raw_value(m["EVN"], 1))

\* ------------------------------------------------------------------------
\* Date/time normalizer
\* ------------------------------------------------------------------------
IsDigit(c) == c \in 0..9

RECURSIVE SkipBlanks(_, _)
\* str::trim_start from position pos: the first position at or after pos
\* that holds no white space.
SkipBlanks(s, pos) ==
    IF pos <= Len(s) /\ s[pos] = Blank THEN SkipBlanks(s, pos + 1) ELSE pos

\* The number of decimal digits of the character tuple s from position pos.
LeadingDigits(s, pos) ==
    Cardinality({ k \in pos..Len(s) : \A j \in pos..k : IsDigit(s[j]) })

\* chrono scan::number(s, 1, width) where `digits` digits are ahead: the
\* number of digits a numeric item takes (0 is a parse error).
DigitsTaken(digits, width) == IF digits < width THEN digits ELSE width

RECURSIVE NumberValue(_, _, _, _, _, _)
\* The decimal value of the k digits of s that start at pos, negated when
\* `negative`, accumulated digit by digit with checked arithmetic: None
\* when it leaves lo..hi (lo <= 0 <= hi).
NumberValue(s, pos, k, negative, lo, hi) ==
    IF k = 0 THEN Some(0)
    ELSE With(NumberValue(s, pos, k - 1, negative, lo, hi), LAMBDA head :
           With(s[pos + k - 1], LAMBDA digit :
             IF ~IsSome(head) THEN None
             ELSE IF negative
             THEN IF head[1] < (lo + digit + 9) \div 10 THEN None
                  ELSE Some(head[1] * 10 - digit)
             ELSE IF head[1] > (hi - digit) \div 10 THEN None
                  ELSE Some(head[1] * 10 + digit)))

\* The years of chrono's NaiveDate (the lowest and the highest).
NaiveYears == << -262143, 262142 >>

\* The years of time's Date and OffsetDateTime (the lowest and the highest).
TimeYears == << -9999, 9999 >>

IsLeapYear(y) == (y % 4 = 0 /\ y % 100 # 0) \/ y % 400 = 0

DaysInMonth(y, m) ==
    IF m = 2 THEN (IF IsLeapYear(y) THEN 29 ELSE 28)
    ELSE IF m \in {4, 6, 9, 11} THEN 30 ELSE 31

\* Days since 1970-01-01 of a calendar date (proleptic Gregorian).
DaysFromCivil(y, m, d) ==
    LET yy  == IF m <= 2 THEN y - 1 ELSE y
        era == yy \div 400
        yoe == yy - era * 400
        mp  == (m + 9) % 12
        doy == (153 * mp + 2) \div 5 + d - 1
        doe == yoe * 365 + yoe \div 4 - yoe \div 100 + doy
    IN  era * 146097 + doe - 719468

\* 0 = Sunday ... 6 = Saturday (1970-01-01 was a Thursday).
Weekday(days) == (days + 4) % 7

\* The day of month of the last Sunday of a month.
LastSunday(y, m) ==
    DaysInMonth(y, m) - Weekday(DaysFromCivil(y, m, DaysInMonth(y, m)))

\* Seconds from the start of year y (UTC) to second `second` of its day
\* (month, day).
SecondOfYear(y, month, day, second) ==
    (DaysFromCivil(y, month, day) - DaysFromCivil(y, 1, 1)) * 86400 + second

\* A transition of the zone: from the UTC second `second` of the day
\* (month, day) on, local time is UTC + offset seconds.
Transition(month, day, second, offset) ==
    [month |-> month, day |-> day, second |-> second, offset |-> offset]

\* Europe/Berlin of the tz database before the EU rules: the transitions of
\* the years 1893 to 1949 (local mean time until 1 April 1893, summer time
\* 1916-1918 and 1940-1949, with double summer time in 1945 and 1947).
BerlinEarlyTransitions ==
    [y \in 1893..1949 |->
      CASE y = 1893 -> << Transition(3, 31, 83192, 3600) >>
        [] y = 1916 -> << Transition(4, 30, 79200, 7200),
                          Transition(9, 30, 82800, 3600) >>
        [] y = 1917 -> << Transition(4, 16, 3600, 7200),
                          Transition(9, 17, 3600, 3600) >>
        [] y = 1918 -> << Transition(4, 15, 3600, 7200),
                          Transition(9, 16, 3600, 3600) >>
        [] y = 1940 -> << Transition(4, 1, 3600, 7200) >>
        [] y = 1942 -> << Transition(11, 2, 3600, 3600) >>
        [] y = 1943 -> << Transition(3, 29, 3600, 7200),
                          Transition(10, 4, 3600, 3600) >>
        [] y = 1944 -> << Transition(4, 3, 3600, 7200),
                          Transition(10, 2, 3600, 3600) >>
        [] y = 1945 -> << Transition(4, 2, 3600, 7200),
                          Transition(5, 24, 0, 10800),
                          Transition(9, 24, 0, 7200),
                          Transition(11, 18, 3600, 3600) >>
        [] y = 1946 -> << Transition(4, 14, 3600, 7200),
                          Transition(10, 7, 3600, 3600) >>
        [] y = 1947 -> << Transition(4, 6, 7200, 7200),
                          Transition(5, 11, 3600, 10800),
                          Transition(6, 29, 0, 7200),
                          Transition(10, 5, 3600, 3600) >>
        [] y = 1948 -> << Transition(4, 18, 3600, 7200),
                          Transition(10, 3, 3600, 3600) >>
        [] y = 1949 -> << Transition(4, 10, 3600, 7200),
                          Transition(10, 2, 3600, 3600) >>
        [] OTHER -> << >>]

\* Europe/Berlin, start of summer time under the EU rules (from 1980):
\* 01:00 UTC of the first Sunday of April in 1980, of the last Sunday of
\* March from 1981 on.
BerlinDstStart(y) ==
    IF y = 1980 THEN Transition(4, 6, 3600, 7200)
    ELSE Transition(3, LastSunday(y, 3), 3600, 7200)

\* Europe/Berlin, end of summer time under the EU rules (from 1980):
\* 01:00 UTC of the last Sunday of September until 1995, of the last Sunday
\* of October from 1996 on.
BerlinDstEnd(y) ==
    IF y <= 1995 THEN Transition(9, LastSunday(y, 9), 3600, 3600)
    ELSE Transition(10, LastSunday(y, 10), 3600, 3600)

\* Europe/Berlin: the transitions of year y in order (none in the years
\* without summer time).
BerlinTransitions(y) ==
    IF y >= 1980 THEN << BerlinDstStart(y), BerlinDstEnd(y) >>
    ELSE IF y \in DOMAIN BerlinEarlyTransitions THEN BerlinEarlyTransitions[y]
    ELSE << >>

\* The UTC second of year y at which its transition t happens.
TransitionAt(y, t) == SecondOfYear(y, t.month, t.day, t.second)

\* Europe/Berlin: the offset in seconds of span k of year y, whose
\* transitions are tr; span 0 runs from the start of the year (local mean
\* time +0:53:28 until 1893, the summer time begun in 1940 in 1941 and
\* 1942, CET in every other year), span k > 0 from transition k.
BerlinSpanOffset(y, tr, k) ==
    IF k = 0
    THEN (IF y <= 1893 THEN 3208 ELSE IF y \in {1941, 1942} THEN 7200 ELSE 3600)
    ELSE tr[k].offset

\* chrono_tz local_span: span k of year y holds the local second `local`
\* of the year.
BerlinSpanHolds(y, tr, k, local) ==
    /\ k > 0 => TransitionAt(y, tr[k]) + BerlinSpanOffset(y, tr, k) <= local
    /\ k < Len(tr) =>
          local < TransitionAt(y, tr[k + 1]) + BerlinSpanOffset(y, tr, k)

\* The spans of year y that hold the local second `local`: none in a gap,
\* two where local time is repeated.
BerlinSpansOf(y, tr, local) ==
    { k \in 0..Len(tr) : BerlinSpanHolds(y, tr, k, local) }

\* chrono NaiveDateTime::checked_sub_offset: the UTC image of the local
\* second `local` of year y under the offset, as seconds from the start of
\* year y; None when it lies outside the NaiveDateTime range (before the
\* first or after the last second of NaiveYears).
CheckedSubOffset(y, local, offset) ==
    IF \/ y = NaiveYears[1] /\ local - offset < 0
       \/ /\ y = NaiveYears[2]
          /\ local - offset >=
                (DaysFromCivil(y + 1, 1, 1) - DaysFromCivil(y, 1, 1)) * 86400
    THEN None
    ELSE Some(local - offset)

\* A faulty BerlinEarliest: the latest instant whose Berlin local time is
\* `local`.
BerlinEarliest_latest(y, local) ==
    With(BerlinTransitions(y), LAMBDA tr :
      With(BerlinSpansOf(y, tr, local), LAMBDA spans :
        IF \/ spans = {}
           \/ \E k \in spans :
                ~IsSome(CheckedSubOffset(y, local, BerlinSpanOffset(y, tr, k)))
        THEN None
        ELSE CheckedSubOffset(y, local, BerlinSpanOffset(y, tr,
               CHOOSE k \in spans : \A j \in spans : j <= k))))

\* chrono_tz Berlin.from_local_datetime(dt).earliest(): the earliest instant
\* whose Berlin local time is `local` (naive seconds of year y), as UTC
\* seconds from the start of year y; None in a gap, and None when the UTC
\* image of a span that holds `local` is no NaiveDateTime (chrono
\* TimeZone::from_local_datetime maps each offset with checked_sub_offset).
BerlinEarliest(y, local) ==
    With(BerlinTransitions(y), LAMBDA tr :
      With(BerlinSpansOf(y, tr, local), LAMBDA spans :
        IF \/ spans = {}
           \/ \E k \in spans :
                ~IsSome(CheckedSubOffset(y, local, BerlinSpanOffset(y, tr, k)))
        THEN None
        ELSE CheckedSubOffset(y, local, BerlinSpanOffset(y, tr,
               CHOOSE k \in spans : \A j \in spans : k <= j))))

\* An instant: the day since 1970-01-01 (UTC) and the second of that day.
Instant(day, second) == [day |-> day, second |-> second]

\* The instant is earlier than `clock`, a time in seconds since the epoch.
InstantBefore(instant, clock) ==
    \/ instant.day < clock \div 86400
    \/ instant.day = clock \div 86400 /\ instant.second < clock % 86400

\* chrono numeric item at position pos of s: white space is skipped; the
\* year (signed) takes a sign and every digit behind it, or, like the other
\* items, up to `width` digits.  The value and the position behind it.
NumericItem(s, pos, width, signed) ==
    With(SkipBlanks(s, pos), LAMBDA at :
      IF signed /\ at <= Len(s) /\ s[at] \in {Plus, Minus}
      THEN With(LeadingDigits(s, at + 1), LAMBDA k :
             With(NumberValue(s, at + 1, k, s[at] = Minus,
                              NaiveYears[1], NaiveYears[2]), LAMBDA v :
               IF k = 0 \/ ~IsSome(v) THEN Err("FormattingError: ParseError")
               ELSE Ok([val |-> v[1], next |-> at + 1 + k])))
      ELSE With(DigitsTaken(LeadingDigits(s, at), width), LAMBDA k :
             IF k = 0 THEN Err("FormattingError: ParseError")
             ELSE Ok([val |-> NumberValue(s, at, k, FALSE, 0, 9999)[1],
                      next |-> at + k])))

\* chrono parsing of "%Y%m%d" at the head of s: the calendar date and the
\* position behind it.
ParseYmd(s) ==
    Try(NumericItem(s, 1, 4, TRUE), LAMBDA y :
      Try(NumericItem(s, y.next, 2, FALSE), LAMBDA m :
        Try(NumericItem(s, m.next, 2, FALSE), LAMBDA d :
          IF m.val \in 1..12 /\ d.val \in 1..DaysInMonth(y.val, m.val)
          THEN Ok([year |-> y.val, month |-> m.val, day |-> d.val,
                   next |-> d.next])
          ELSE Err("FormattingError: ParseError"))))

\* mapper.rs parse_date: NaiveDate::parse_and_remainder(input, "%Y%m%d"),
\* whatever follows the date is ignored; time's Date::from_calendar_date
\* takes the years -9999 to 9999.
parse_date(input) ==
    Try(ParseYmd(input), LAMBDA d :
      IF d.year \in TimeYears[1]..TimeYears[2]
      THEN Ok([year |-> d.year, month |-> d.month, day |-> d.day])
      ELSE Err("FormattingError: ComponentRange"))

\* chrono parsing of "%H%M" from position pos of s, which must end the
\* input: the minute of the day.
ParseHm(s, pos) ==
    Try(NumericItem(s, pos, 2, FALSE), LAMBDA h :
      Try(NumericItem(s, h.next, 2, FALSE), LAMBDA m :
        IF h.val \in 0..23 /\ m.val \in 0..59 /\ m.next = Len(s) + 1
        THEN Ok(h.val * 60 + m.val)
        ELSE Err("FormattingError: ParseError")))

\* Berlin.from_local_datetime(dt).earliest() turned into an OffsetDateTime
\* from its Unix timestamp: the offset of the result is UTC (0); `local` is
\* the naive second of year y.  from_unix_timestamp takes the instants of
\* the years -9999 to 9999.
LocalToOffsetDateTime(y, local) ==
    With(BerlinEarliest(y, local), LAMBDA u :
      IF ~IsSome(u) THEN Err("FormattingError: InvalidDate")
      ELSE With(DaysFromCivil(y, 1, 1) + u[1] \div 86400, LAMBDA day :
             IF /\ DaysFromCivil(TimeYears[1], 1, 1) <= day
                /\ day <= DaysFromCivil(TimeYears[2], 12, 31)
             THEN Ok([instant |-> Instant(day, u[1] % 86400), offset |-> 0])
             ELSE Err("FormattingError: ComponentRange")))

\* mapper.rs parse_datetime: NaiveDateTime::parse_from_str(input,
\* "%Y%m%d%H%M") (the whole input must be consumed), read as Europe/Berlin
\* local time, earliest instant.
parse_datetime(input) ==
    Try(ParseYmd(input), LAMBDA d :
      Try(ParseHm(input, d.next), LAMBDA t :
        LocalToOffsetDateTime(d.year,
          SecondOfYear(d.year, d.month, d.day, t * 60))))

\* ------------------------------------------------------------------------
\* Identifier and reference builder, bundle entries
\* ------------------------------------------------------------------------
\* fhir_model Identifier: every field optional.
Identifier(use, system, value, type) ==
    [use |-> use, system |-> system, value |-> value, type |-> type]

\* mapper.rs identifier_search
identifier_search(system, value) == "identifier=" \o system \o "|" \o value

\* Option::ok_or
ok_or(o, error) == IF IsSome(o) THEN Ok(o[1]) ELSE Err(error)

\* A faulty conditional_reference: a missing system or value is taken as
\* the empty string.
conditional_reference_lenient(resource_type, identifier) ==
    Ok(resource_type \o "?"
         \o identifier_search(
               IF IsSome(identifier.system) THEN identifier.system[1] ELSE "",
               IF IsSome(identifier.value) THEN identifier.value[1] ELSE ""))

\* mapper.rs conditional_reference
conditional_reference(resource_type, identifier) ==
    Try(ok_or(identifier.system, "identifier.system missing"), LAMBDA system :
      Try(ok_or(identifier.value, "identifier.value missing"), LAMBDA value :
        Ok(resource_type \o "?" \o identifier_search(system, value))))

\* mapper.rs resource_ref
resource_ref(res_type, id, system) ==
    Ok([reference |-> Some(res_type \o "?identifier="
                             \o identifier_search(system, id)),
        type |-> None])

\* BundleEntryRequest
BundleEntryRequest(method, url, if_none_exist) ==
    [method |-> method, url |-> url, if_none_exist |-> if_none_exist]

\* BundleEntry
BundleEntry(resource, request) == [resource |-> resource, request |-> request]

\* A faulty identifier lookup: every identifier that is present, whatever
\* its use.
UsualIdentifiers_any_use(resource) ==
    SelectSeq(resource.identifier, LAMBDA o : IsSome(o))

\* The identifiers of a resource that are present and have use = usual, in
\* list order (resource.identifier().iter().flatten().find(..) takes the
\* first).
UsualIdentifiers(resource) ==
    SelectSeq(resource.identifier,
              LAMBDA o : IsSome(o) /\ o[1].use = Some("usual"))

\* A faulty EntryRequest: the update-as-create request whatever the
\* request type.
EntryRequest_always_put(resource_type, identifier, request_type) ==
    Try(conditional_reference(resource_type, identifier), LAMBDA url :
      Ok(BundleEntryRequest("PUT", url, None)))

\* The request of a bundle entry for a resource identified by `identifier`.
EntryRequest(resource_type, identifier, request_type) ==
    IF request_type = "UpdateAsCreate"
    THEN Try(conditional_reference(resource_type, identifier), LAMBDA url :
           Ok(BundleEntryRequest("PUT", url, None)))
    ELSE \* ConditionalCreate
         Try(ok_or(identifier.system, "identifier.system missing"), LAMBDA system :
           Try(ok_or(identifier.value, "identifier.value missing"), LAMBDA value :
             Ok(BundleEntryRequest("POST", resource_type,
                                   Some(identifier_search(system, value))))))

\* mapper.rs bundle_entry
bundle_entry(resource, request_type) ==
    With(UsualIdentifiers(resource), LAMBDA found :
      IF Len(found) = 0 THEN Err("missing identifier with use: 'usual'")
      ELSE Try(EntryRequest(resource.resource_type, found[1][1], request_type),
               LAMBDA request : Ok(BundleEntry(resource, request))))

\* mapper.rs patch_bundle_entry
patch_bundle_entry(resource, resource_type, identifier) ==
    Try(conditional_reference(resource_type, identifier), LAMBDA url :
      Ok(BundleEntry(resource, BundleEntryRequest("PATCH", url, None))))

\* fhir_model Coding
Coding(system, code, display) ==
    [system |-> system, code |-> code, display |-> display]

\* fhir_model CodeableConcept
CodeableConcept(coding) == [coding |-> coding]

\* ------------------------------------------------------------------------
\* Patient mapper (patient.rs)
\* ------------------------------------------------------------------------
\* patient.rs create_patient_identifier
create_patient_identifier(m, cfg) ==
    Try(parse_field(m, "PID", 2), LAMBDA f :
      Try(ok_or(f, "empty pid value PID.2"), LAMBDA pid :
        Ok(Identifier(Some("usual"), Some(cfg.person.system), Some(pid), None))))

\* The Address of a PID.11 field.
Address(addr_field, lines) ==
    [type |-> "both",
     line |-> IF IsSome(lines)
              THEN [i \in 1..Len(lines[1]) |-> Some(lines[1][i])]
              ELSE <<>>,
     city |-> parse_component(addr_field, 3),
     postal_code |-> parse_component(addr_field, 5),
     country |-> parse_component(addr_field, 6)]

\* patient.rs map_addresses
map_addresses(m) ==
    Try(parse_field(m, "PID", 11), LAMBDA f :
      IF ~IsSome(f) THEN Ok(<<>>)
      ELSE Ok(<< Some(Address(f[1], parse_subcomponents(f[1], 1))) >>))

\* patient.rs field_extension
field_extension(url, ext_value) == [url |-> url, value |-> ext_value]

\* fhir_model HumanName
HumanName(use, family, given, prefix, prefix_ext, family_ext) ==
    [use |-> use, family |-> family, given |-> given, prefix |-> prefix,
     prefix_ext |-> prefix_ext, family_ext |-> family_ext]

\* map_name: the name use of PID.5.7.
NameUse(u) ==
    IF ~IsSome(u) THEN None
    ELSE IF u[1] = "L" THEN Some("official")
    ELSE IF u[1] \in {"M", "B"} THEN Some("maiden")
    ELSE None

\* `.map(|e| vec![Some(e)]).unwrap_or_default()`
OptionToVec(o) == IF IsSome(o) THEN << Some(o[1]) >> ELSE <<>>

\* map_name: the qualifier extension that goes with a prefix (PID.5.6).
PrefixExtension(prefix) ==
    IF IsSome(prefix)
    THEN << Some(field_extension(
              "http://hl7.org/fhir/StructureDefinition/iso21090-EN-qualifier",
              "AC")) >>
    ELSE <<>>

\* map_name: the family-name extension; the own-prefix (PID.5.5) is
\* assigned after the namenszusatz (PID.5.4) and so wins.
FamilyExtension(namenszusatz, vorsatzwort) ==
    IF IsSome(vorsatzwort)
    THEN Some(field_extension(
           "http://hl7.org/fhir/StructureDefinition/humanname-own-prefix",
           vorsatzwort[1]))
    ELSE IF IsSome(namenszusatz)
    THEN Some(field_extension(
           "http://fhir.de/StructureDefinition/humanname-namenszusatz",
           namenszusatz[1]))
    ELSE None

\* map_name: the HumanName of the PID.5 field.
PrimaryName(name_field) ==
    HumanName(NameUse(parse_component(name_field, 7)),
              parse_component(name_field, 1),
              OptionToVec(parse_component(name_field, 2)),
              OptionToVec(parse_component(name_field, 6)),
              PrefixExtension(parse_component(name_field, 6)),
              FamilyExtension(parse_component(name_field, 4),
                              parse_component(name_field, 5)))

\* map_name: the maiden name of the PID.6 field.
MaidenName(f6) ==
    IF IsSome(f6)
    THEN << Some(HumanName(Some("maiden"), Some(f6[1]), <<>>, <<>>, <<>>, None)) >>
    ELSE <<>>

\* patient.rs map_name
map_name(m) ==
    Try(parse_field(m, "PID", 5), LAMBDA f5 :
      IF ~IsSome(f5) THEN Ok(<<>>)
      ELSE Try(parse_field(m, "PID", 6), LAMBDA f6 :
             Ok(<< Some(PrimaryName(f5[1])) >> \o MaidenName(f6))))

\* patient.rs map_gender
map_gender(gender) ==
    IF gender = "F" THEN "female"
    ELSE IF gender = "M" THEN "male"
    ELSE IF gender = "U" THEN "other"
    ELSE "unknown"

\* The v3-MaritalStatus coding of an HL7 marital status code.
MaritalCoding(code) ==
    LET sys == "http://terminology.hl7.org/CodeSystem/v3-MaritalStatus"
    IN  IF code \in {"A", "E"} THEN Coding(sys, "L", "Legally Separated")
        ELSE IF code = "D" THEN Coding(sys, "D", "Divorced")
        ELSE IF code = "M" THEN Coding(sys, "M", "Married")
        ELSE IF code = "S" THEN Coding(sys, "S", "Never Married")
        ELSE IF code = "W" THEN Coding(sys, "W", "Widowed")
        ELSE IF code = "C" THEN Coding(sys, "C", "Common Law")
        ELSE IF code \in {"G", "P", "R"} THEN Coding(sys, "T", "Domestic partner")
        ELSE IF code = "N" THEN Coding(sys, "A", "Annulled")
        ELSE IF code = "I" THEN Coding(sys, "I", "Interlocutory")
        ELSE IF code = "B" THEN Coding(sys, "U", "Unmarried")
        ELSE Coding(sys, "UNK", "Unknown")

\* map_marital_status: the concept of the first component of PID.16.
MaritalConcept(c) ==
    IF IsSome(c)
    THEN Some(CodeableConcept(<< Some(MaritalCoding(c[1])) >>))
    ELSE None

\* patient.rs map_marital_status
map_marital_status(m) ==
    Try(parse_field(m, "PID", 16), LAMBDA f :
      IF ~IsSome(f) THEN Ok(None)
      ELSE Ok(MaritalConcept(parse_component(f[1], 1))))

\* A faulty map_deceased: the confirmation PID.30 is looked at first.
map_deceased_confirm_first(m) ==
    Try(parse_field(m, "PID", 29), LAMBDA death_time :
      Try(parse_field(m, "PID", 30), LAMBDA death_confirm :
        IF IsSome(death_confirm)
        THEN Ok(Some([kind |-> "Boolean", value |-> (death_confirm[1] = "Y")]))
        ELSE IF IsSome(death_time)
        THEN Try(parse_datetime(death_time[1]), LAMBDA t :
               Ok(Some([kind |-> "DateTime", value |-> t])))
        ELSE Ok(None)))

\* patient.rs map_deceased
map_deceased(m) ==
    Try(parse_field(m, "PID", 29), LAMBDA death_time :
      Try(parse_field(m, "PID", 30), LAMBDA death_confirm :
        IF IsSome(death_time)
        THEN Try(parse_datetime(death_time[1]), LAMBDA t :
               Ok(Some([kind |-> "DateTime", value |-> t])))
        ELSE IF IsSome(death_confirm)
        THEN Ok(Some([kind |-> "Boolean", value |-> (death_confirm[1] = "Y")]))
        ELSE Ok(None)))

\* str::parse::<i32> of a character tuple: an optional sign, then one or
\* more digits and nothing else; a value outside i32 is an error.
parse_i32(s) ==
    With(IF Len(s) > 0 /\ s[1] \in {Plus, Minus} THEN 2 ELSE 1, LAMBDA pos :
      With(NumberValue(s, pos, Len(s) + 1 - pos, Len(s) > 0 /\ s[1] = Minus,
                       -2147483647 - 1, 2147483647), LAMBDA v :
        IF /\ Len(s) >= pos
           /\ \A i \in pos..Len(s) : IsDigit(s[i])
           /\ IsSome(v)
        THEN Ok(v[1])
        ELSE Err("ParseIntError")))

\* A faulty MultiBirthFlags: the affirmative flag is Y.
MultiBirthFlags_yes_is_Y(is_multi_birth) ==
    IF ~IsSome(is_multi_birth) THEN "None"
    ELSE IF is_multi_birth[1] = "Y" THEN "Yes"
    ELSE IF is_multi_birth[1] = "N" THEN "No"
    ELSE "Unsupported"

\* map_multiple_birth: the flag read from PID.24.
MultiBirthFlags(is_multi_birth) ==
    IF ~IsSome(is_multi_birth) THEN "None"
    ELSE IF is_multi_birth[1] = "J" THEN "Yes"
    ELSE IF is_multi_birth[1] = "N" THEN "No"
    ELSE "Unsupported"

\* A faulty BirthNumber: a birth order that is no integer is dropped.
BirthNumber_lenient(number) ==
    IF number.ok THEN Ok(Some([kind |-> "Integer", value |-> number.val]))
    ELSE Ok(None)

\* map_multiple_birth: the birth order parsed from PID.25.
BirthNumber(number) ==
    IF number.ok THEN Ok(Some([kind |-> "Integer", value |-> number.val]))
    ELSE Err("MessageContentUnexpected: Birth number PID.25, expected Integer value")

\* map_multiple_birth: the match on (flag, PID.25).
MultipleBirthOf(multi_birth_flag, multi_birth_number) ==
    IF ~IsSome(multi_birth_number)
    THEN IF multi_birth_flag = "Yes"
         THEN Ok(Some([kind |-> "Boolean", value |-> TRUE]))
         ELSE IF multi_birth_flag = "No"
         THEN Ok(Some([kind |-> "Boolean", value |-> FALSE]))
         ELSE IF multi_birth_flag = "None" THEN Ok(None)
         ELSE Err("MessageContentUnexpected: Multibirth flag PID.24, expected Y or N or empty")
    ELSE IF multi_birth_flag = "No"
    THEN Err("MessageContentUnexpected: Multibirth flag PID.24, expected Y")
    ELSE IF multi_birth_flag = "Yes"
    THEN BirthNumber(parse_i32(multi_birth_number[1]))
    ELSE Ok(None)

\* patient.rs map_multiple_birth
map_multiple_birth(m) ==
    Try(parse_field(m, "PID", 24), LAMBDA is_multi_birth :
      Try(parse_field(m, "PID", 25), LAMBDA multi_birth_number :
        MultipleBirthOf(MultiBirthFlags(is_multi_birth), multi_birth_number)))

\* map_patient: the birth date of the PID.7 field.
BirthDate(f7) ==
    IF IsSome(f7) THEN Try(parse_date(f7[1]), LAMBDA b : Ok(Some(b)))
    ELSE Ok(None)

\* map_patient: the gender of the PID.8 field.
Gender(f8) == IF IsSome(f8) THEN Some(map_gender(f8[1])) ELSE None

\* patient.rs map_patient
map_patient(m, cfg) ==
    Try(create_patient_identifier(m, cfg), LAMBDA identifier :
    Try(map_addresses(m), LAMBDA address :
    Try(map_name(m), LAMBDA name :
    Try(parse_field(m, "PID", 7), LAMBDA f7 :
    Try(BirthDate(f7), LAMBDA birth_date :
    Try(parse_field(m, "PID", 8), LAMBDA f8 :
    Try(map_marital_status(m), LAMBDA marital_status :
    Try(map_deceased(m), LAMBDA deceased :
    Try(map_multiple_birth(m), LAMBDA multiple_birth :
      Ok([resource_type |-> "Patient",
          meta |-> [profile |-> << Some(cfg.person.profile) >>],
          identifier |-> << Some(identifier) >>,
          address |-> address,
          name |-> name,
          birth_date |-> birth_date,
          gender |-> Gender(f8),
          marital_status |-> marital_status,
          deceased |-> deceased,
          multiple_birth |-> multiple_birth]))))))))))

\* A FHIR Patch parameter: a name with a value or with parts.
ParametersParameter(name, value, part) ==
    [name |-> name, value |-> value, part |-> part]

\* create_patient_merge: the Parameters resource that links to `other`.
MergeParameters(other) ==
    [resource_type |-> "Parameters",
     parameter |-> << Some(ParametersParameter("operation", None, <<
       Some(ParametersParameter("type", Some([kind |-> "Code", value |-> "add"]), <<>>)),
       Some(ParametersParameter("path", Some([kind |-> "String", value |-> "Patient"]), <<>>)),
       Some(ParametersParameter("name", Some([kind |-> "String", value |-> "link"]), <<>>)),
       Some(ParametersParameter("value", None, <<
         Some(ParametersParameter("other",
                Some([kind |-> "Reference",
                      value |-> [reference |-> Some(other),
                                 type |-> Some("Patient")]]), <<>>)),
         Some(ParametersParameter("type",
                Some([kind |-> "Code", value |-> "replaced-by"]), <<>>)) >>))
     >>)) >>]

\* A faulty create_patient_merge: the patch is addressed to the record of
\* PID.2 and links to the record of MRG.1.
create_patient_merge_swapped(m, cfg) ==
    Try(create_patient_identifier(m, cfg), LAMBDA pid_identifier :
    Try(parse_field(m, "MRG", 1), LAMBDA f :
    Try(ok_or(f, "Failed to map Patient merge: Missing MRG.1 segment"), LAMBDA mrg :
      Ok(<< MergeParameters("Patient?"
                              \o identifier_search(cfg.person.system, mrg)),
            Identifier(None, pid_identifier.system, pid_identifier.value,
                       None) >>))))

\* patient.rs create_patient_merge: the Parameters resource and the
\* identifier (person system, MRG.1) of the record the patch is applied to.
create_patient_merge(m, cfg) ==
    Try(create_patient_identifier(m, cfg), LAMBDA pid_identifier :
    Try(conditional_reference("Patient", pid_identifier), LAMBDA other :
    Try(parse_field(m, "MRG", 1), LAMBDA f :
    Try(ok_or(f, "Failed to map Patient merge: Missing MRG.1 segment"), LAMBDA mrg :
      Ok(<< MergeParameters(other),
            Identifier(None, Some(cfg.person.system), Some(mrg), None) >>)))))

\* A faulty arm selection of patient::map: the events without an arm are
\* ignored like the cancel events instead of being rejected.
PatientEntries_other_ignored(m, cfg, msg_type) ==
    IF msg_type \in {"Admit", "Registration", "PreAdmit",
                     "ChangeOutpatientToInpatient",
                     "ChangeInpatientToOutpatient", "PatientUpdate"}
    THEN Try(map_patient(m, cfg), LAMBDA patient :
           Try(bundle_entry(patient, "UpdateAsCreate"), LAMBDA entry :
             Ok(<< entry >>)))
    ELSE IF msg_type \in {"Transfer", "Discharge", "ChangePersonData"}
    THEN Try(map_patient(m, cfg), LAMBDA patient :
           Try(bundle_entry(patient, "ConditionalCreate"), LAMBDA entry :
             Ok(<< entry >>)))
    ELSE IF msg_type \in {"PatientMerge", "MergePatientRecords"}
    THEN Try(create_patient_merge(m, cfg), LAMBDA merge :
           Try(patch_bundle_entry(merge[1], "Patient", merge[2]), LAMBDA entry :
             Ok(<< entry >>)))
    ELSE Ok(<<>>)

\* patient.rs map: the arm of the match for a message type.
PatientEntries(m, cfg, msg_type) ==
    IF msg_type \in {"Admit", "Registration", "PreAdmit",
                     "ChangeOutpatientToInpatient",
                     "ChangeInpatientToOutpatient", "PatientUpdate"}
    THEN Try(map_patient(m, cfg), LAMBDA patient :
           Try(bundle_entry(patient, "UpdateAsCreate"), LAMBDA entry :
             Ok(<< entry >>)))
    ELSE IF msg_type \in {"Transfer", "Discharge", "ChangePersonData"}
    THEN Try(map_patient(m, cfg), LAMBDA patient :
           Try(bundle_entry(patient, "ConditionalCreate"), LAMBDA entry :
             Ok(<< entry >>)))
    ELSE IF msg_type \in {"PatientMerge", "MergePatientRecords"}
    THEN Try(create_patient_merge(m, cfg), LAMBDA merge :
           Try(patch_bundle_entry(merge[1], "Patient", merge[2]), LAMBDA entry :
             Ok(<< entry >>)))
    ELSE IF msg_type \in {"CancelAdmitVisit", "CancelTransfer",
                          "CancelDischarge", "PendingAdmit",
                          "CancelPendingAdmit"}
    THEN Ok(<<>>)
    ELSE Err("Invalid message type: " \o MessageType_to_string(msg_type))

\* patient.rs map
patient_map(m, cfg) ==
    Try(message_type(m), LAMBDA msg_type : PatientEntries(m, cfg, msg_type))

\* ------------------------------------------------------------------------
\* Resource map (resources.rs)
\* ------------------------------------------------------------------------
\* resources.rs ResourceMap::map_fab_schluessel
map_fab_schluessel(res, code) ==
    IF code \in DOMAIN res.department_map
    THEN LET dep == res.department_map[code]
         IN  Ok(CodeableConcept(<< Some(Coding(
               "http://fhir.de/CodeSystem/dkgev/Fachabteilungsschluessel-erweitert",
               dep.fachabteilungs_schluessel, dep.abteilungs_bezeichnung)) >>))
    ELSE Err("Fachabteilungsschluessel " \o code \o " not found")

\* ------------------------------------------------------------------------
\* Encounter mapper (encounter.rs)
\* ------------------------------------------------------------------------
\* A faulty is_begleitperson: no PV1.2 value counts as a companion.
is_begleitperson_never(m) ==
    Try(parse_field(m, "PV1", 2), LAMBDA f : Ok(FALSE))

\* encounter.rs is_begleitperson
is_begleitperson(m) ==
    Try(parse_field(m, "PV1", 2), LAMBDA f : Ok(IsSome(f) /\ f[1] = "H"))

\* A faulty FabOf: the location (PV1.3.1) is taken whenever it is there.
FabOf_location_first(facility, location, loc_status) ==
    IF IsSome(location) THEN location
    ELSE IF IsSome(facility) /\ IsSome(loc_status) THEN loc_status
    ELSE None

\* parse_fab: the match on (PV1.3.4, PV1.3.1, PV1.3.5).
FabOf(facility, location, loc_status) ==
    IF IsSome(facility) /\ IsSome(location) THEN facility
    ELSE IF ~IsSome(facility) /\ IsSome(location) THEN location
    ELSE IF IsSome(facility) /\ ~IsSome(location) /\ IsSome(loc_status)
    THEN loc_status
    ELSE None

\* encounter.rs parse_fab
parse_fab(m) ==
    Try(parse_field(m, "PV1", 3), LAMBDA f :
      IF ~IsSome(f) THEN Ok(None)
      ELSE Ok(FabOf(parse_component(f[1], 4), parse_component(f[1], 1),
                    parse_component(f[1], 5))))

\* encounter.rs map_visit_number
map_visit_number(m) ==
    Try(message_type(m), LAMBDA t :
      IF t = "PendingAdmit"
      THEN Try(parse_field(m, "PID", 4), LAMBDA f :
             ok_or(f, "empty visit number in PID.4"))
      ELSE Try(parse_field(m, "PV1", 19), LAMBDA f :
             ok_or(f, "empty visit number in PV1.19")))

\* encounter.rs map_meta
map_meta(cfg) == [profile |-> << Some(cfg.fall.profile) >>, source |-> Some("#orbis")]

\* map_encounter_class: the match on the PV1.2 code.
EncounterClassOf(code) ==
    IF code = "I"
    THEN Ok(Coding("http://terminology.hl7.org/CodeSystem/v3-ActCode",
                   "IMP", "inpatient encounter"))
    ELSE IF code = "O"
    THEN Ok(Coding("http://terminology.hl7.org/CodeSystem/v3-ActCode",
                   "AMB", "ambulatory"))
    ELSE IF code = "P"
    THEN Ok(Coding("http://terminology.hl7.org/CodeSystem/v3-ActCode",
                   "PRENC", "pre-admission"))
    ELSE Err("Invalid encounter_class code (PV1.2): " \o code)

\* encounter.rs map_encounter_class
map_encounter_class(m) ==
    Try(parse_field(m, "PV1", 2), LAMBDA f :
      Try(ok_or(f, "empty encounter_class value in PV1.2"), EncounterClassOf))

\* map_kontaktart: the match on the PV1.2 code.
KontaktartOf(code) ==
    IF code \in {"I", "O"} THEN Ok(None)
    ELSE IF code = "H"
    THEN Ok(Some(Coding("http://fhir.de/CodeSystem/kontaktart-de",
                        "begleitperson", "Begleitperson")))
    ELSE IF code = "TS"
    THEN Ok(Some(Coding("http://fhir.de/CodeSystem/kontaktart-de",
                        "teilstationaer", "Teilstationaere Behandlung")))
    ELSE IF code = "NS"
    THEN Ok(Some(Coding("http://fhir.de/CodeSystem/kontaktart-de",
                        "nachstationaer", "Nachstationaer")))
    ELSE IF code = "UB"
    THEN Ok(Some(Coding("http://fhir.de/CodeSystem/kontaktart-de",
                        "ub", "Untersuchung und Behandlung")))
    ELSE Err("Invalid kontakt_art code (PV1.2): " \o code)

\* encounter.rs map_kontaktart
map_kontaktart(m) ==
    Try(parse_field(m, "PV1", 2), LAMBDA f :
      IF IsSome(f) THEN KontaktartOf(f[1]) ELSE Ok(None))

\* map_encounter_type: the codings, Kontaktebene first, then the
\* Kontaktart when there is one.
EncounterTypeCodings(c) ==
    << Some(Coding("http://fhir.de/CodeSystem/Kontaktebene",
                   "einrichtungskontakt", "Einrichtungskontakt")) >>
      \o (IF IsSome(c) THEN << Some(c[1]) >> ELSE <<>>)

\* encounter.rs map_encounter_type
map_encounter_type(m) ==
    Try(map_kontaktart(m), LAMBDA c :
      Ok(<< Some(CodeableConcept(EncounterTypeCodings(c))) >>))

\* encounter.rs fab_ref
fab_ref(fab) ==
    resource_ref("Organization", fab, "https://fhir.diz.uni-marburg.de/sid/department")

\* encounter.rs subject_ref
subject_ref(m, sid) ==
    Try(parse_field(m, "PID", 2), LAMBDA f :
      Try(ok_or(f, "missing pid value in PID.2"), LAMBDA pid :
        resource_ref("Patient", pid, sid)))

\* map_admit_source: the display texts of the Aufnahmeanlass codes.
AdmitSourceDisplay ==
    [E |-> "Einweisung durch einen Arzt",
     Z |-> "Einweisung durch einen Zahnarzt",
     N |-> "Notfall",
     R |-> "Aufnahme nach vorausgehender Behandlung in einer Rehabilitationseinrichtung",
     V |-> "Verlegung mit Behandlungsdauer im verlegenden Krankenhaus laenger als 24 Stunden",
     A |-> "Verlegung mit Behandlungsdauer im verlegenden Krankenhaus bis zu 24 Stunden",
     G |-> "Geburt",
     B |-> "Begleitperson oder mitaufgenommene Pflegekraft"]

\* map_admit_source: the match on PV1.4.1.
AdmitSourceOf(admit) ==
    IF ~IsSome(admit)
    THEN Err("Missing PV1-4.1 field / component for Encounter.hospitalization.admitSource")
    ELSE IF admit[1] \in DOMAIN AdmitSourceDisplay
    THEN Ok(Some([admit_source |-> Some(CodeableConcept(
           << Some(Coding("http://fhir.de/CodeSystem/dgkev/Aufnahmeanlass",
                          admit[1], AdmitSourceDisplay[admit[1]])) >>))]))
    ELSE Err("Unknown code " \o admit[1]
             \o " in PV1-4.1 for Encounter.hospitalization.admitSource")

\* encounter.rs map_admit_source
map_admit_source(m) ==
    Try(parse_field(m, "PV1", 4), LAMBDA f :
      IF ~IsSome(f) THEN Ok(None)
      ELSE AdmitSourceOf(parse_component(f[1], 1)))

\* fhir_model Period
Period(start, end) == [start |-> start, end |-> end]

\* map_period: the period that starts at `start`, by PV1.45 and event type.
PeriodFrom(m, start, f45) ==
    IF IsSome(f45)
    THEN Try(parse_datetime(f45[1]), LAMBDA end :
           Ok(Period(Some(start), Some(end))))
    ELSE Try(message_type(m), LAMBDA t :
           IF t = "Registration" THEN Ok(Period(Some(start), Some(start)))
           ELSE Ok(Period(Some(start), None)))

\* encounter.rs map_period
map_period(m) ==
    Try(parse_field(m, "PV1", 44), LAMBDA f44 :
    Try(ok_or(f44, "empty datetime in PV1.44"), LAMBDA s :
    Try(parse_datetime(s), LAMBDA start :
    Try(parse_field(m, "PV1", 45), LAMBDA f45 :
      PeriodFrom(m, start, f45)))))

\* A faulty map_encounter_status: a start at the current time counts as
\* already begun.
map_encounter_status_inclusive(period, clock) ==
    IF ~IsSome(period.start) /\ ~IsSome(period.end) THEN "unknown"
    ELSE IF IsSome(period.end) THEN "finished"
    ELSE IF InstantBefore(period.start[1].instant, clock + 1)
    THEN "in-progress"
    ELSE "planned"

\* encounter.rs map_encounter_status; clock is OffsetDateTime::now_utc() in
\* seconds since the Unix epoch.
map_encounter_status(period, clock) ==
    IF ~IsSome(period.start) /\ ~IsSome(period.end) THEN "unknown"
    ELSE IF IsSome(period.end) THEN "finished"
    ELSE IF InstantBefore(period.start[1].instant, clock) THEN "in-progress"
    ELSE "planned"

\* A faulty EncounterIdentifiers: the common identifier comes first.
EncounterIdentifiers_official_first(cfg, usual_number, official_number) ==
    << Some(Identifier(Some("official"), Some(cfg.fall.system),
                       Some(official_number),
                       Some(CodeableConcept(<< Some(Coding(
                         "http://terminology.hl7.org/CodeSystem/v2-0203",
                         "VN", "")) >>)))),
       Some(Identifier(Some("usual"),
                       Some(cfg.fall.einrichtungskontakt.system),
                       Some(usual_number), None)) >>

\* map_einrichtungskontakt: the two identifiers of the Encounter, the
\* site specific (usual) one first, the common (official, VN) one last.
EncounterIdentifiers(cfg, usual_number, official_number) ==
    << Some(Identifier(Some("usual"),
                       Some(cfg.fall.einrichtungskontakt.system),
                       Some(usual_number), None)),
       Some(Identifier(Some("official"), Some(cfg.fall.system),
                       Some(official_number),
                       Some(CodeableConcept(<< Some(Coding(
                         "http://terminology.hl7.org/CodeSystem/v2-0203",
                         "VN", "")) >>)))) >>

\* map_einrichtungskontakt: the department fields of the Encounter, set
\* when parse_fab found a department code.
FabFields(res, fab) ==
    IF IsSome(fab)
    THEN Try(map_fab_schluessel(res, fab[1]), LAMBDA service_type :
           Try(fab_ref(fab[1]), LAMBDA service_provider :
             Ok([service_type |-> Some(service_type),
                 service_provider |-> Some(service_provider)])))
    ELSE Ok([service_type |-> None, service_provider |-> None])

\* encounter.rs map_einrichtungskontakt
map_einrichtungskontakt(m, cfg, res, clock) ==
    Try(parse_fab(m), LAMBDA fab :
    Try(map_visit_number(m), LAMBDA usual_number :
    Try(map_visit_number(m), LAMBDA official_number :
    Try(map_encounter_class(m), LAMBDA class :
    Try(map_encounter_type(m), LAMBDA type :
    Try(subject_ref(m, cfg.person.system), LAMBDA subject :
    Try(map_period(m), LAMBDA period :
    Try(map_period(m), LAMBDA status_period :
    Try(FabFields(res, fab), LAMBDA dep :
    Try(map_admit_source(m), LAMBDA hospitalization :
      Ok([resource_type |-> "Encounter",
          meta |-> map_meta(cfg),
          identifier |-> EncounterIdentifiers(cfg, usual_number, official_number),
          class |-> class,
          type |-> type,
          subject |-> subject,
          period |-> period,
          status |-> map_encounter_status(status_period, clock),
          service_type |-> dep.service_type,
          service_provider |-> dep.service_provider,
          hospitalization |-> hospitalization])))))))))))

\* A faulty EncounterEntries: a patient update (A08) builds an Encounter
\* as well.
EncounterEntries_update_too(m, cfg, res, clock, msg_type) ==
    IF msg_type \in {"Admit", "Transfer", "Discharge", "Registration", "PreAdmit",
                     "PatientUpdate"}
    THEN Try(map_einrichtungskontakt(m, cfg, res, clock), LAMBDA enc_admit :
           Try(bundle_entry(enc_admit, "UpdateAsCreate"), LAMBDA entry :
             Ok(<< entry >>)))
    ELSE Ok(<<>>)

\* encounter.rs map: the arm of the match for a message type; the entry of
\* an Encounter is the update-as-create (PUT) form of bundle_entry.
EncounterEntries(m, cfg, res, clock, msg_type) ==
    IF msg_type \in {"Admit", "Transfer", "Discharge", "Registration", "PreAdmit"}
    THEN Try(map_einrichtungskontakt(m, cfg, res, clock), LAMBDA enc_admit :
           Try(bundle_entry(enc_admit, "UpdateAsCreate"), LAMBDA entry :
             Ok(<< entry >>)))
    ELSE Ok(<<>>)

\* A faulty encounter::map: the fault of is_begleitperson is returned
\* instead of being taken as "not a companion".
encounter_map_begleit_fault(m, cfg, res, clock) ==
    Try(is_begleitperson(m), LAMBDA begleit :
      IF begleit THEN Ok(<<>>)
      ELSE Try(message_type(m), LAMBDA msg_type :
             EncounterEntries(m, cfg, res, clock, msg_type)))

\* encounter.rs map
encounter_map(m, cfg, res, clock) ==
    With(is_begleitperson(m), LAMBDA begleit :
      IF begleit.ok /\ begleit.val THEN Ok(<<>>)
      ELSE Try(message_type(m), LAMBDA msg_type :
             EncounterEntries(m, cfg, res, clock, msg_type)))

\* ------------------------------------------------------------------------
\* Event dispatcher and bundle assembler (mapper.rs FhirMapper)
\* ------------------------------------------------------------------------
\* A faulty map_resources: the encounter entries chained before the patient
\* entries.
map_resources_encounter_first(pr, er) ==
    Try(pr, LAMBDA pv :
      Try(er, LAMBDA ev :
        Ok([i \in 1..(Len(ev) + Len(pv)) |->
              IF i <= Len(ev) THEN Some(ev[i]) ELSE Some(pv[i - Len(ev)])])))

\* FhirMapper::map_resources from the two mappers' results: the patient
\* entries chained with the encounter entries, each wrapped in Some.
map_resources(pr, er) ==
    Try(pr, LAMBDA pv :
      Try(er, LAMBDA ev :
        Ok([i \in 1..(Len(pv) + Len(ev)) |->
              IF i <= Len(pv) THEN Some(pv[i]) ELSE Some(ev[i - Len(pv)])])))

\* FhirMapper::map after map_resources: Ok(None) for no entries, else the
\* transaction Bundle.
assemble(resources_result) ==
    Try(resources_result, LAMBDA entries :
      IF Len(entries) = 0 THEN Ok(None)
      ELSE Ok(Some([resource_type |-> "Bundle", type |-> "transaction",
                    entry |-> entries])))

\* A faulty FhirMapper::map: a fault of the encounter mapper is dropped and
\* the patient entries are emitted alone.
FhirMapper_map_patient_only(m, cfg, res, clock) ==
    Try(patient_map(m, cfg), LAMBDA pv :
      With(encounter_map(m, cfg, res, clock), LAMBDA er :
        assemble(map_resources(Ok(pv), IF er.ok THEN er ELSE Ok(<<>>)))))

\* FhirMapper::map on a parsed message.
FhirMapper_map(m, cfg, res, clock) ==
    Try(patient_map(m, cfg), LAMBDA pv :
      assemble(map_resources(Ok(pv), encounter_map(m, cfg, res, clock))))

\* ------------------------------------------------------------------------
\* Inputs: configurations, lookup tables, clock readings, messages
\* ------------------------------------------------------------------------
\* How many of the patient ids of PatientIdPool occur as PID.2.
MaxPatientIds == 2

\* How many clock readings (1 January of consecutive years from 2025).
MaxClockYears == 2

PatientIdPool == << "9999999", "1234567", "7654321", "5550001" >>

PidValues ==
    { PatientIdPool[i] : i \in { j \in DOMAIN PatientIdPool : j <= MaxPatientIds } }

\* OffsetDateTime::now_utc() in seconds since the Unix epoch: the start of a
\* year, and the very instant of 2025-11-02 21:20 Berlin time (20:20 UTC).
ClockValues ==
    { DaysFromCivil(2024 + k, 1, 1) * 86400 : k \in 1..MaxClockYears }
    \cup { DaysFromCivil(2025, 11, 2) * 86400 + (20 * 60 + 20) * 60 }

\* The configuration of the tests of mapper.rs (fall.einrichtungskontakt is
\* Default::default()), and one with every system set.
TestConfig ==
    [person |-> [profile |-> "https://www.medizininformatik-initiative.de/fhir/core/modul-person/StructureDefinition/Patient|2025.0.0",
                 system  |-> "https://fhir.diz.uni-marburg.de/sid/patient-id"],
     fall   |-> [profile |-> "https://www.medizininformatik-initiative.de/fhir/core/modul-fall/StructureDefinition/KontaktGesundheitseinrichtung|2025.0.0",
                 system  |-> "https://fhir.diz.uni-marburg.de/sid/encounter-id",
                 einrichtungskontakt |-> [system |-> ""]]]

SiteConfig ==
    [person |-> [profile |-> "http://example.org/fhir/StructureDefinition/Patient",
                 system  |-> "http://example.org/sid/pid"],
     fall   |-> [profile |-> "http://example.org/fhir/StructureDefinition/Encounter",
                 system  |-> "http://example.org/sid/visit",
                 einrichtungskontakt |-> [system |-> "http://example.org/sid/einrichtungskontakt"]]]

Configs == { TestConfig, SiteConfig }

\* ResourceMap: the department table of the tests of mapper.rs and one more
\* department.
TestResources ==
    [department_map |->
        ("POL" :> [abteilungs_bezeichnung |-> "Pneumologie",
                   fachabteilungs_schluessel |-> "0800"])
     @@ ("CHI" :> [abteilungs_bezeichnung |-> "Allgemeine Chirurgie",
                   fachabteilungs_schluessel |-> "1500"])]

\* A segment with n fields, f its non-empty ones; a segment the message lacks.
Seg(n, f) == [present |-> TRUE, n |-> n, f |-> f]

NoSeg == [present |-> FALSE, n |-> 0, f |-> <<>>]

\* f with field i set to v (an empty v removes the field).
WithField(seg, i, v) ==
    [seg EXCEPT !.f = IF Len(v) = 0
                      THEN [j \in (DOMAIN seg.f) \ {i} |-> seg.f[j]]
                      ELSE (i :> v) @@ seg.f]

\* The segment cut after field n.
CutAfter(seg, n) ==
    [seg EXCEPT !.n = n,
                !.f = [j \in { k \in DOMAIN seg.f : k <= n } |-> seg.f[j]]]

\* 202511022120 and 202511031000 as character tuples.
T1 == << 2,0,2,5, 1,1, 0,2, 2,1, 2,0 >>

T2 == << 2,0,2,5, 1,1, 0,3, 1,0, 0,0 >>

\* 200903301036, the input of test_parse_datetime (summer time).
T3 == << 2,0,0,9, 0,3, 3,0, 1,0, 3,6 >>

\* 202510260230, a local time that occurs twice (summer time ends), and
\* 202503300230, a local time that does not occur (summer time begins).
T4 == << 2,0,2,5, 1,0, 2,6, 0,2, 3,0 >>

T5 == << 2,0,2,5, 0,3, 3,0, 0,2, 3,0 >>

\* 197507011200, a summer day of a year without summer time, and
\* "20251102 2120", the time of T1 with a blank before the hour.
T6 == << 1,9,7,5, 0,7, 0,1, 1,2, 0,0 >>

T7 == << 2,0,2,5, 1,1, 0,2, Blank, 2,1, 2,0 >>

\* "-262143 01010000", midnight of the first day chrono's NaiveDateTime
\* holds: local mean time is ahead of UTC, the instant is no NaiveDateTime.
T8 == << Minus, 2,6,2,1,4,3, Blank, 0,1, 0,1, 0,0, 0,0 >>

\* "-10000 01010000", a local time whose instant lies before the year -9999,
\* and 999912312359, the last minute of the year 9999 (22:59 UTC).
T9 == << Minus, 1,0,0,0,0, Blank, 0,1, 0,1, 0,0, 0,0 >>

T10 == << 9,9,9,9, 1,2, 3,1, 2,3, 5,9 >>

BasePID ==
    Seg(30, (2 :> "9999999") @@ (3 :> "9999999") @@ (4 :> "88888888")
         @@ (5 :> << "Nachname", "Vorname", "", "", "", "", "L" >>)
         @@ (7 :> T1) @@ (8 :> "M")
         @@ (11 :> << << "Strasse. 1", "Strasse.", "1" >>, "", "Stadt", "", "30000", "DE", "L" >>)
         @@ (16 :> << "U" >>) @@ (30 :> "N"))

BasePV1 ==
    Seg(45, (1 :> "1") @@ (2 :> "I")
         @@ (3 :> << "POL", "", "", "POL" >>)
         @@ (19 :> "88888888") @@ (44 :> T1) @@ (45 :> T1))

BaseMRG == Seg(7, (1 :> "09876543") @@ (4 :> "09876543"))

EventCodes == { MessageTypeTable[i][1] : i \in DOMAIN MessageTypeTable }

EVNVariants ==
    { NoSeg, Seg(0, <<>>), Seg(6, (1 :> "A99") @@ (2 :> T1)) }
    \cup { Seg(6, (1 :> c) @@ (2 :> T1)) : c \in EventCodes }

PIDVariants ==
    { NoSeg, WithField(BasePID, 2, ""), CutAfter(BasePID, 2) }
    \cup { WithField(BasePID, 2, v) : v \in PidValues }

MRGVariants == { NoSeg, Seg(1, <<>>), BaseMRG }

\* PID variants of the name slice: the name PID.5 (none, plain, with a
\* namenszusatz, with a vorsatzwort, with both) and the maiden name PID.6.
PIDName ==
    { WithField(WithField(BasePID, 5, name), 6, maiden) :
        name \in { <<>> } \cup
                { << "Nachname", "Vorname", "", zusatz, vorsatz, "", "L" >> :
                    zusatz \in {"", "Graf"}, vorsatz \in {"", "von"} },
        maiden \in {"", "Geburtsname"} }

\* PID variants of the cut slice: the segment ends right before one of the
\* fields 6, 7, 8, 11, 16, 24, 25, 29, 30.
PIDCut ==
    { CutAfter(BasePID, i - 1) : i \in {6, 7, 8, 11, 16, 24, 25, 29, 30} }

\* PID variants of the deceased slice: the time of death PID.29 (none,
\* 202511022120, the malformed 2025) and the confirmation PID.30.
PIDDeceased ==
    { WithField(WithField(BasePID, 29, death_time), 30, death_confirm) :
        death_time \in { <<>>, T1, << 2,0,2,5 >> },
        death_confirm \in {"", "Y", "N"} }

\* PID variants of the birth slice: the multiple-birth flag PID.24 and the
\* birth order PID.25 (2, 12 and the letter a, as character tuples).
PIDBirth ==
    { WithField(WithField(BasePID, 24, flag), 25, number) :
        flag \in {"", "J", "N", "Y", "X"},
        number \in { <<>>, << 2 >>, << 1, 2 >>, << NonDigit >>,
                    << Plus, 2 >>, << Minus, 1 >>, << Blank, 2 >>,
                    << 2,1,4,7,4,8,3,6,4,8 >> } }

\* PV1 variants of the dispatch slice.
PV1Dispatch ==
    { NoSeg, BasePV1, WithField(BasePV1, 2, "H"), WithField(BasePV1, 2, "X"),
      WithField(BasePV1, 2, "") }

\* PV1.3 variants: location (component 1), facility (4), status (5).
PV1Locations ==
    { << l, "", "", f, s >> : l \in {"", "POL"}, f \in {"", "CHI"},
                              s \in {"", "POL", "XXX"} } \ { << "", "", "", "", "" >> }

\* PV1 variants of the encounter slice: the base segment with one field
\* changed.
PV1Encounter ==
    { WithField(BasePV1, 2, c) : c \in {"O", "P", "TS", "NS", "UB"} }
    \cup { WithField(BasePV1, 3, loc) : loc \in PV1Locations \cup { <<>> } }
    \cup { WithField(BasePV1, 4, a) : a \in { << "E" >>, << "X" >>, << "", "E" >> } }
    \cup { WithField(BasePV1, 19, "") }
    \cup { WithField(BasePV1, 44, t) : t \in { <<>>, T2, T3, T4, T5, T6, T7, T8, T9, T10,
                                                  << 2,0,2,5 >> } }
    \cup { WithField(BasePV1, 45, t) : t \in { <<>>, T2, << 2,0,2,5, NonDigit >> } }
    \cup { CutAfter(BasePV1, 44), CutAfter(BasePV1, 2) }

Message(evn, pid, pv1, mrg) == [EVN |-> evn, PID |-> pid, PV1 |-> pv1, MRG |-> mrg]

\* Every event with every patient, merge and coarse PV1 variant; the
\* encounter-building events with every PV1 variant; and an admission and a
\* patient update with every multiple-birth, deceased, cut and name
\* variant; and an admission and a
\* pending admission with another and with no PID.4.
Messages ==
    { Message(evn, pid, pv1, mrg) :
        evn \in EVNVariants, pid \in PIDVariants, pv1 \in PV1Dispatch,
        mrg \in MRGVariants }
    \cup
    { Message(Seg(6, (1 :> c) @@ (2 :> T1)), pid, pv1, NoSeg) :
        c \in {"A01", "A02", "A03", "A04", "A05", "A08"},
        pid \in { WithField(BasePID, 2, v) : v \in PidValues },
        pv1 \in PV1Encounter }
    \cup
    { Message(Seg(6, (1 :> c) @@ (2 :> T1)), pid, BasePV1, NoSeg) :
        c \in {"A01", "A08"}, pid \in PIDBirth \cup PIDDeceased \cup PIDCut \cup PIDName }
    \cup
    { Message(Seg(6, (1 :> c) @@ (2 :> T1)), WithField(BasePID, 4, v), BasePV1, NoSeg) :
        c \in {"A01", "A14"}, v \in {"", "77777777"} }

\* ------------------------------------------------------------------------
\* The mapping of one message, step by step (FhirMapper::map)
\* ------------------------------------------------------------------------
\* A mapper that has not been called.
NotRun == [run |-> FALSE]

Init ==
    /\ msg \in Messages
    /\ config \in Configs
    /\ resources = TestResources
    /\ now \in ClockValues
    /\ pc = "received"
    /\ p = NotRun
    /\ e = NotRun
    /\ result = NotRun
    /\ partition = <<>>
    /\ cursor = 0
    /\ stored = 0
    /\ output = <<>>
    /\ worker = "polling"
    /\ sending = None
    /\ run_result = NotRun

\* map_resources, first line: the patient mapper; its fault is map's fault.
MapPatient ==
    /\ pc = "received"
    /\ p' = patient_map(msg, config)
    /\ IF p'.ok
       THEN pc' = "patient_mapped" /\ result' = result
       ELSE pc' = "done" /\ result' = Err(p'.err)
    /\ UNCHANGED <<msg, config, resources, now, e>>
    /\ UNCHANGED loopvars

\* map_resources, second line: the encounter mapper.
MapEncounter ==
    /\ pc = "patient_mapped"
    /\ e' = encounter_map(msg, config, resources, now)
    /\ IF e'.ok
       THEN pc' = "encounter_mapped" /\ result' = result
       ELSE pc' = "done" /\ result' = Err(e'.err)
    /\ UNCHANGED <<msg, config, resources, now, p>>
    /\ UNCHANGED loopvars

\* The entries are chained and the Bundle, if any, is built.
Assemble ==
    /\ pc = "encounter_mapped"
    /\ result' = assemble(map_resources(p, e))
    /\ pc' = "done"
    /\ UNCHANGED <<msg, config, resources, now, p, e>>
    /\ UNCHANGED loopvars

Next == MapPatient \/ MapEncounter \/ Assemble

Spec == Init /\ [][Next]_vars

\* ------------------------------------------------------------------------
\* The consume loop of one worker (main.rs run)
\* ------------------------------------------------------------------------
\* How many records the partition holds at most.
MaxRecords == 3

\* The payload of a record: none, bytes that are no UTF-8 text, or a text
\* with the result of Message::parse_with_lenient_newlines on it.
AbsentPayload == [kind |-> "absent"]

UndecodablePayload == [kind |-> "bytes"]

TextPayload(hl7) == [kind |-> "text", hl7 |-> hl7]

\* main.rs deserialize_message: the payload of the record as text (the key
\* takes no part in the control flow).
deserialize_message(m) ==
    IF m.kind = "text" THEN Some(m.hl7) ELSE None

\* FhirMapper::map on a payload text: the text is parsed, then mapped.
FhirMapper_map_text(hl7, cfg, res, clock) ==
    Try(hl7, LAMBDA v2_msg : FhirMapper_map(v2_msg, cfg, res, clock))

\* Messages of the loop: an admission (a Bundle), a cancelled admission (no
\* output) and an unknown event (a mapping fault).
LoopMessages ==
    { Message(Seg(6, (1 :> c) @@ (2 :> T1)), BasePID, BasePV1, NoSeg) :
        c \in {"A01", "A11", "A99"} }

Payloads ==
    { AbsentPayload, UndecodablePayload, TextPayload(Err("ParseError")) }
    \cup { TextPayload(Ok(m)) : m \in LoopMessages }

\* The message no call of map has been given.
NoMessage == Message(NoSeg, NoSeg, NoSeg, NoSeg)

LoopInit ==
    /\ msg = NoMessage
    /\ config = TestConfig
    /\ resources = TestResources
    /\ now \in ClockValues
    /\ pc = "received"
    /\ p = NotRun
    /\ e = NotRun
    /\ result = NotRun
    /\ partition \in UNION { [1..n -> Payloads] : n \in 1..MaxRecords }
    /\ cursor = 0
    /\ stored = 0
    /\ output = <<>>
    /\ worker = "polling"
    /\ sending = None
    /\ run_result = NotRun

\* A faulty stream: it hands out records after the closure returned a fault.
Polled_after_return ==
    worker \in {"polling", "returned"} /\ cursor < Len(partition)

\* The stream hands out the next record of the partition.
Polled == worker = "polling" /\ cursor < Len(partition)

\* The payload text of the record handed out, and its mapping.
Payload == deserialize_message(partition[cursor + 1])

Mapped == FhirMapper_map_text(Payload[1], config, resources, now)

\* main.rs commit_offset of the record before `position`: the position is
\* stored, or the store fails and the expect panics.
CommitOffset(store_ok, position) ==
    IF store_ok
    THEN stored' = position /\ worker' = "polling"
    ELSE stored' = stored /\ worker' = "panicked"

\* A tombstone is skipped: nothing is stored.
Tombstone ==
    /\ Polled
    /\ ~IsSome(Payload)
    /\ cursor' = cursor + 1
    /\ UNCHANGED <<partition, stored, output, worker, sending, run_result>>
    /\ UNCHANGED mapvars

\* The mapper returns no output: the offset is stored.
NoOutput ==
    /\ Polled
    /\ IsSome(Payload)
    /\ Mapped.ok /\ ~IsSome(Mapped.val)
    /\ cursor' = cursor + 1
    /\ \E store_ok \in BOOLEAN : CommitOffset(store_ok, cursor + 1)
    /\ UNCHANGED <<partition, output, sending, run_result>>
    /\ UNCHANGED mapvars

\* The mapper returns a Bundle: it is sent and the delivery awaited.
Send ==
    /\ Polled
    /\ IsSome(Payload)
    /\ Mapped.ok /\ IsSome(Mapped.val)
    /\ cursor' = cursor + 1
    /\ sending' = Mapped.val
    /\ worker' = "sending"
    /\ UNCHANGED <<partition, stored, output, run_result>>
    /\ UNCHANGED mapvars

\* The mapper returns a fault: the closure returns it and try_for_each
\* ends the stream, run returns the fault.
MapFault ==
    /\ Polled
    /\ IsSome(Payload)
    /\ ~Mapped.ok
    /\ cursor' = cursor + 1
    /\ worker' = "returned"
    /\ run_result' = Err(Mapped.err)
    /\ UNCHANGED <<partition, stored, output, sending>>
    /\ UNCHANGED mapvars

\* The record has been delivered to the output topic: the offset is stored.
Delivered ==
    /\ worker = "sending"
    /\ output' = Append(output, [offset |-> cursor - 1, payload |-> sending[1]])
    /\ sending' = None
    /\ \E store_ok \in BOOLEAN : CommitOffset(store_ok, cursor)
    /\ UNCHANGED <<partition, cursor, run_result>>
    /\ UNCHANGED mapvars

\* The delivery has failed: the error is printed and the loop goes on.
DeliveryFailed ==
    /\ worker = "sending"
    /\ sending' = None
    /\ worker' = "polling"
    /\ UNCHANGED <<partition, cursor, stored, output, run_result>>
    /\ UNCHANGED mapvars

\* The stream yields an error of the consumer: try_for_each ends with it.
StreamError ==
    /\ worker = "polling"
    /\ worker' = "returned"
    /\ run_result' = Err("KafkaError")
    /\ UNCHANGED <<partition, cursor, stored, output, sending>>
    /\ UNCHANGED mapvars

LoopNext ==
    \/ Tombstone
    \/ NoOutput
    \/ Send
    \/ MapFault
    \/ Delivered
    \/ DeliveryFailed
    \/ StreamError

LoopSpec == LoopInit /\ [][LoopNext]_vars

\* ------------------------------------------------------------------------
\* Vocabulary of the properties
\* ------------------------------------------------------------------------
\* EVN.1 of the message, "" when the message has none.
EventCode ==
    IF msg["EVN"].present /\ msg["EVN"].n >= 1 THEN raw_value(msg["EVN"], 1)
    ELSE ""

\* The raw value of a field, "" when the segment is missing or shorter.
FieldOf(segment, field) ==
    IF msg[segment].present /\ field <= msg[segment].n
    THEN raw_value(msg[segment], field)
    ELSE ""

\* A mapper has been called and returned Ok / Err.
Returned(r) == "ok" \in DOMAIN r

Succeeded(r) == Returned(r) /\ r.ok

Faulted(r) == Returned(r) /\ ~r.ok

\* FhirMapper::map has returned a Bundle; its entries.
BundleEmitted == pc = "done" /\ Succeeded(result) /\ IsSome(result.val)

Entries == result.val[1].entry

\* ------------------------------------------------------------------------
\* C1: when neither mapper faults, FhirMapper::map returns None exactly
\* when both mappers returned an empty list; otherwise it returns one
\* transaction Bundle whose entries are the patient mapper's entries
\* followed by the encounter mapper's, never a Bundle without entries; an
\* A01 message with a mapped Encounter yields two entries, Patient first.
\* ------------------------------------------------------------------------
C1_ConcatenatedOrNone ==
    (pc = "done" /\ Succeeded(p) /\ Succeeded(e)) =>
        /\ Succeeded(result)
        /\ (result.val = None) <=> (Len(p.val) = 0 /\ Len(e.val) = 0)
        /\ IsSome(result.val) =>
              /\ result.val[1].resource_type = "Bundle"
              /\ result.val[1].type = "transaction"
              /\ Len(Entries) = Len(p.val) + Len(e.val)
              /\ Len(Entries) > 0
              /\ \A i \in 1..Len(p.val) : Entries[i] = Some(p.val[i])
              /\ \A j \in 1..Len(e.val) : Entries[Len(p.val) + j] = Some(e.val[j])
        /\ (EventCode = "A01" /\ FieldOf("PV1", 2) # "H") =>
              /\ IsSome(result.val)
              /\ Len(Entries) = 2
              /\ Entries[1][1].resource.resource_type = "Patient"
              /\ Entries[2][1].resource.resource_type = "Encounter"

\* An A01 message has been mapped to a Bundle of a Patient and an Encounter.
C1_Witness ==
    /\ BundleEmitted
    /\ EventCode = "A01"
    /\ Len(p.val) = 1 /\ Len(e.val) = 1
    /\ Len(Entries) = 2

\* The conditional-search string of the patient of the message.
PatientSearch == "identifier=" \o config.person.system \o "|" \o FieldOf("PID", 2)

UpdateEvents == {"A01", "A04", "A05", "A06", "A07", "A08"}

CreateEvents == {"A02", "A03", "A31"}

\* ------------------------------------------------------------------------
\* C2: patient dispatch table.  Whenever the patient mapper returns
\* entries: for A01, A04, A05, A06, A07, A08 exactly one entry, a Patient
\* with method PUT, url Patient?identifier=<person.system>|<PID.2> and no
\* ifNoneExist; for A02, A03, A31 exactly one entry, a Patient with method
\* POST, url Patient and ifNoneExist identifier=<person.system>|<PID.2>;
\* for no other event an entry that holds a Patient.
\* ------------------------------------------------------------------------
C2_PatientDispatch ==
    Succeeded(p) =>
        /\ EventCode \in UpdateEvents =>
              /\ Len(p.val) = 1
              /\ p.val[1].resource.resource_type = "Patient"
              /\ p.val[1].request =
                    [method |-> "PUT", url |-> "Patient?" \o PatientSearch,
                     if_none_exist |-> None]
        /\ EventCode \in CreateEvents =>
              /\ Len(p.val) = 1
              /\ p.val[1].resource.resource_type = "Patient"
              /\ p.val[1].request =
                    [method |-> "POST", url |-> "Patient",
                     if_none_exist |-> Some(PatientSearch)]
        /\ EventCode \notin UpdateEvents \cup CreateEvents =>
              \A i \in 1..Len(p.val) :
                 p.val[i].resource.resource_type # "Patient"

\* The patient mapper has returned the conditional-create entry of an A03.
C2_Witness ==
    /\ Succeeded(p)
    /\ EventCode = "A03"
    /\ Len(p.val) = 1
    /\ p.val[1].request.method = "POST"
    /\ p.val[1].resource.identifier[1][1].value = Some(FieldOf("PID", 2))

\* The parts of a patch parameter as <<name, value>> pairs, in order.
PartValues(parameter) ==
    [i \in 1..Len(parameter.part) |->
       << parameter.part[i][1].name, parameter.part[i][1].value >>]

\* ------------------------------------------------------------------------
\* C3: for A34 and A40 with non-empty MRG.1 and PID.2 the patient mapper
\* returns exactly one entry, a Parameters resource with method PATCH and
\* url Patient?identifier=<person.system>|<MRG.1>, whose single operation
\* parameter has the parts type=add, path=Patient, name=link and a value
\* part made of other = Reference Patient?identifier=<person.system>|<PID.2>
\* followed by type=replaced-by; with MRG.1 or PID.2 empty it faults.
\* ------------------------------------------------------------------------
C3_PatientMerge ==
    (Returned(p) /\ EventCode \in {"A34", "A40"}) =>
        IF FieldOf("MRG", 1) # "" /\ FieldOf("PID", 2) # ""
        THEN /\ p.ok
             /\ Len(p.val) = 1
             /\ p.val[1].resource.resource_type = "Parameters"
             /\ p.val[1].request =
                   [method |-> "PATCH",
                    url |-> "Patient?identifier=" \o config.person.system
                              \o "|" \o FieldOf("MRG", 1),
                    if_none_exist |-> None]
             /\ Len(p.val[1].resource.parameter) = 1
             /\ LET operation == p.val[1].resource.parameter[1][1]
                IN  /\ operation.name = "operation"
                    /\ Len(operation.part) = 4
                    /\ PartValues(operation)[1] =
                          << "type", Some([kind |-> "Code", value |-> "add"]) >>
                    /\ PartValues(operation)[2] =
                          << "path", Some([kind |-> "String", value |-> "Patient"]) >>
                    /\ PartValues(operation)[3] =
                          << "name", Some([kind |-> "String", value |-> "link"]) >>
                    /\ operation.part[4][1].name = "value"
                    /\ PartValues(operation.part[4][1]) =
                          << << "other",
                                Some([kind |-> "Reference",
                                      value |-> [reference |-> Some("Patient?" \o PatientSearch),
                                                 type |-> Some("Patient")]]) >>,
                             << "type",
                                Some([kind |-> "Code", value |-> "replaced-by"]) >> >>
        ELSE ~p.ok

\* The patient mapper has returned the patch entry of an A40 whose MRG.1
\* differs from PID.2.
C3_Witness ==
    /\ Succeeded(p)
    /\ EventCode = "A40"
    /\ Len(p.val) = 1
    /\ p.val[1].request.method = "PATCH"
    /\ FieldOf("MRG", 1) # FieldOf("PID", 2)

IgnoredEvents == {"A11", "A12", "A13", "A14", "A27"}

\* ------------------------------------------------------------------------
\* C4: for A11, A12, A13, A14 and A27 FhirMapper::map returns the no-output
\* value, neither a Bundle nor a fault, whatever the PID and PV1 segments
\* hold, missing and invalid segments included; both mappers return an
\* empty list.
\* ------------------------------------------------------------------------
C4_IgnoredEventsNoOutput ==
    EventCode \in IgnoredEvents =>
        /\ Returned(p) => p = Ok(<<>>)
        /\ Returned(e) => e = Ok(<<>>)
        /\ pc = "done" => result = Ok(None)

\* An A13 message without PID and PV1 segments has been mapped to no output.
C4_Witness ==
    /\ pc = "done"
    /\ EventCode = "A13"
    /\ ~msg["PID"].present /\ ~msg["PV1"].present
    /\ Returned(e)
    /\ result = Ok(None)

\* The message is about a companion (Begleitperson): PV1.2 = H.
Begleitperson == FieldOf("PV1", 2) = "H"

\* ------------------------------------------------------------------------
\* C5 as stated: for a message with PV1.2 = H, of any event type,
\* FhirMapper::map emits no entry at all (no Bundle with an entry), not
\* only no Encounter entry.
\* ------------------------------------------------------------------------
C5_NoEntryAtAll ==
    (pc = "done" /\ Begleitperson) => ~(BundleEmitted /\ Len(Entries) > 0)

\* ------------------------------------------------------------------------
\* C5 amended: for a message with PV1.2 = H, of any event type, the
\* encounter mapper returns an empty list, so no Encounter entry is
\* emitted; the patient mapper's entries are emitted as they are, and
\* FhirMapper::map returns the no-output value only when the patient mapper
\* returns an empty list too, which is for A11, A12, A13, A14 and A27.
\* ------------------------------------------------------------------------
C5_BegleitpersonNoEncounter ==
    Begleitperson =>
        /\ Returned(e) => e = Ok(<<>>)
        /\ (pc = "done" /\ Succeeded(p)) =>
              /\ Succeeded(result)
              /\ IF Len(p.val) = 0 THEN result.val = None
                 ELSE /\ IsSome(result.val)
                      /\ Entries = [i \in 1..Len(p.val) |-> Some(p.val[i])]
                      /\ \A i \in 1..Len(Entries) :
                            Entries[i][1].resource.resource_type # "Encounter"
              /\ (result.val = None) <=> (EventCode \in IgnoredEvents)

\* An A01 message with PV1.2 = H has been mapped to a Bundle of one entry,
\* the Patient.
C5_Witness ==
    /\ BundleEmitted
    /\ Begleitperson
    /\ EventCode = "A01"
    /\ Returned(e)
    /\ Len(Entries) = 1
    /\ Entries[1][1].resource.resource_type = "Patient"

\* The enumerated events that no arm of either mapper builds a resource for.
UnmappedEvents == {"A28", "A29", "A45", "A47", "A50"}

\* ------------------------------------------------------------------------
\* C6 as stated: for A28, A29, A45, A47 and A50 FhirMapper::map returns an
\* empty result (the no-output value) and not an error.
\* ------------------------------------------------------------------------
C6_UnmappedEventsEmpty ==
    (pc = "done" /\ EventCode \in UnmappedEvents) => result = Ok(None)

\* ------------------------------------------------------------------------
\* C6 amended: for A28, A29, A45, A47 and A50 FhirMapper::map returns an
\* error and not an empty result: the fault "Invalid message type: <code>",
\* whatever the PID, PV1 and MRG segments hold.
\* ------------------------------------------------------------------------
C6_UnmappedEventsFault ==
    (pc = "done" /\ EventCode \in UnmappedEvents) =>
        result = Err("Invalid message type: " \o EventCode)

\* An A45 message with valid PID and PV1 segments has been rejected.
C6_Witness ==
    /\ pc = "done"
    /\ EventCode = "A45"
    /\ FieldOf("PID", 2) # "" /\ FieldOf("PV1", 2) = "I"
    /\ Faulted(result)

\* ------------------------------------------------------------------------
\* C7: the patient mapper faults with "invalid message type" for A28, A29,
\* A45, A47 and A50, and with a message-type parsing fault for an EVN.1
\* outside the enumerated set or a missing EVN segment; in each of these
\* cases FhirMapper::map returns that fault, emits no Bundle and does not
\* call the encounter mapper.
\* ------------------------------------------------------------------------
C7_PatientMapperRejects ==
    (Returned(p) /\ EventCode \notin EventCodes \ UnmappedEvents) =>
        /\ ~p.ok
        /\ IF EventCode \in UnmappedEvents
           THEN p.err = "Invalid message type: " \o EventCode
           ELSE IF ~msg["EVN"].present
           THEN p.err = "Missing message type: missing ENV segment"
           ELSE IF msg["EVN"].n < 1
           THEN p.err = "Missing message type: missing message type segment"
           ELSE p.err = "Unknown message type: " \o EventCode
        /\ pc = "done"
        /\ result = Err(p.err)
        /\ ~BundleEmitted
        /\ e = NotRun

\* A message without an EVN segment has been rejected by the patient
\* mapper.
C7_Witness ==
    /\ pc = "done"
    /\ ~msg["EVN"].present
    /\ Faulted(p)
    /\ Faulted(result)

\* The positions of the identifiers of a resource whose use is usual.
UsualPositions(resource) ==
    { i \in 1..Len(resource.identifier) :
        /\ IsSome(resource.identifier[i])
        /\ resource.identifier[i][1].use = Some("usual") }

\* The resource without its usual identifiers.
WithoutUsual(resource) ==
    [resource EXCEPT !.identifier =
       SelectSeq(@, LAMBDA o : ~(IsSome(o) /\ o[1].use = Some("usual")))]

\* The request is the update or the conditional create addressed by the
\* system and value of the identifier.
RequestBuiltFrom(request, resource_type, identifier) ==
    /\ IsSome(identifier.system)
    /\ IsSome(identifier.value)
    /\ \/ request = [method |-> "PUT",
                     url |-> resource_type \o "?identifier="
                               \o identifier.system[1] \o "|" \o identifier.value[1],
                     if_none_exist |-> None]
       \/ request = [method |-> "POST", url |-> resource_type,
                     if_none_exist |-> Some("identifier=" \o identifier.system[1]
                                              \o "|" \o identifier.value[1])]

\* ------------------------------------------------------------------------
\* C8: every Patient and every Encounter of an emitted Bundle has exactly
\* one identifier whose use is usual, and the request of its entry is built
\* from the system and value of that identifier; the same resource without
\* that identifier is not given an entry, bundle_entry faults on it.
\* ------------------------------------------------------------------------
C8_OneUsualIdentifier ==
    BundleEmitted =>
        \A i \in 1..Len(Entries) :
           LET resource == Entries[i][1].resource
           IN  resource.resource_type \in {"Patient", "Encounter"} =>
                 /\ Cardinality(UsualPositions(resource)) = 1
                 /\ \A k \in UsualPositions(resource) :
                       RequestBuiltFrom(Entries[i][1].request,
                                        resource.resource_type,
                                        resource.identifier[k][1])
                 /\ \A t \in {"UpdateAsCreate", "ConditionalCreate"} :
                       bundle_entry(WithoutUsual(resource), t)
                         = Err("missing identifier with use: 'usual'")

\* A Bundle has been emitted whose Encounter carries a usual and an
\* official identifier.
C8_Witness ==
    /\ BundleEmitted
    /\ \E i \in 1..Len(Entries) :
          /\ Entries[i][1].resource.resource_type = "Encounter"
          /\ Len(Entries[i][1].resource.identifier) = 2
          /\ UsualPositions(Entries[i][1].resource) = {1}
          /\ Entries[i][1].request.method = "PUT"

\* The identifier an emitted entry is addressed by: the usual identifier of
\* a Patient or Encounter, the person system with MRG.1 for a merge patch.
AddressOf(entry) ==
    IF entry.resource.resource_type = "Parameters"
    THEN Identifier(None, Some(config.person.system),
                    Some(FieldOf("MRG", 1)), None)
    ELSE UsualIdentifiers(entry.resource)[1][1]

\* The resource type an emitted entry is addressed to.
TargetOf(entry) ==
    IF entry.resource.resource_type = "Parameters" THEN "Patient"
    ELSE entry.resource.resource_type

\* ------------------------------------------------------------------------
\* C9: in every emitted Bundle the request of each entry has either the url
\* <ResourceType>?identifier=<system>|<value> and no ifNoneExist (methods
\* PUT and PATCH), or the bare resource type as url and ifNoneExist
\* identifier=<system>|<value> (method POST); system and value are both
\* present, and for an identifier that lacks either the construction of
\* the entry faults.
\* ------------------------------------------------------------------------
C9_RequestUrlForms ==
    BundleEmitted =>
        \A i \in 1..Len(Entries) :
           LET entry == Entries[i][1]
               id == AddressOf(entry)
           IN  /\ IsSome(id.system) /\ IsSome(id.value)
               /\ entry.request.method \in {"PUT", "PATCH", "POST"}
               /\ entry.request.method \in {"PUT", "PATCH"} =>
                     /\ entry.request.url =
                           TargetOf(entry) \o "?identifier=" \o id.system[1]
                             \o "|" \o id.value[1]
                     /\ entry.request.if_none_exist = None
               /\ entry.request.method = "POST" =>
                     /\ entry.request.url = TargetOf(entry)
                     /\ entry.request.if_none_exist =
                           Some("identifier=" \o id.system[1] \o "|" \o id.value[1])
               /\ \A lacking \in { [id EXCEPT !.system = None],
                                    [id EXCEPT !.value = None] } :
                     /\ ~patch_bundle_entry(entry.resource, TargetOf(entry), lacking).ok
                     /\ entry.resource.resource_type # "Parameters" =>
                           \A t \in {"UpdateAsCreate", "ConditionalCreate"} :
                              ~bundle_entry([entry.resource EXCEPT
                                               !.identifier = << Some(lacking) >>], t).ok

\* The Bundle of an A03 message has been emitted: a conditional create
\* (POST) of the Patient and an update (PUT) of the Encounter.
C9_Witness ==
    /\ BundleEmitted
    /\ Len(Entries) = 2
    /\ Entries[1][1].request.method = "POST"
    /\ Entries[1][1].request.url = "Patient"
    /\ Entries[2][1].request.method = "PUT"
    /\ Entries[2][1].request.if_none_exist = None

\* ------------------------------------------------------------------------
\* C10: for every emitted Encounter, subject.reference is exactly
\* Patient?identifier=<person.system>|<PID.2>, the string that is the
\* request url of the Patient entry, with identifier= occurring once, and
\* the serviceProvider reference, when there is one, is exactly
\* Organization?identifier=https://fhir.diz.uni-marburg.de/sid/department|
\* followed by the selected department code.
\* ------------------------------------------------------------------------
C10_EncounterReferences ==
    BundleEmitted =>
        \A i \in 1..Len(Entries) :
           LET resource == Entries[i][1].resource
           IN  resource.resource_type = "Encounter" =>
                 /\ resource.subject.reference = Some("Patient?" \o PatientSearch)
                 /\ IsSome(resource.service_provider) =>
                       resource.service_provider[1].reference =
                         Some("Organization?identifier="
                                \o "https://fhir.diz.uni-marburg.de/sid/department"
                                \o "|" \o parse_fab(msg).val[1])

\* The Encounter resources of the emitted Bundle.
EmittedEncounters ==
    IF BundleEmitted
    THEN { Entries[i][1].resource :
             i \in { j \in 1..Len(Entries) :
                       Entries[j][1].resource.resource_type = "Encounter" } }
    ELSE {}

\* Instant a is earlier than instant b.
Earlier(a, b) == a.day < b.day \/ (a.day = b.day /\ a.second < b.second)

\* The current time as an instant.
ClockInstant == [day |-> now \div 86400, second |-> now % 86400]

\* ------------------------------------------------------------------------
\* C11: every emitted Encounter whose period has both a start and an end
\* has start no later than end; a PV1.45 earlier than PV1.44 never yields
\* an Encounter whose period.start is later than its period.end.
\* ------------------------------------------------------------------------
C11_PeriodOrdered ==
    \A enc \in EmittedEncounters :
       IsSome(enc.period.start) /\ IsSome(enc.period.end) =>
          ~Earlier(enc.period.end[1].instant, enc.period.start[1].instant)

\* ------------------------------------------------------------------------
\* C12: the status of an emitted Encounter is decided by its period: it is
\* finished whenever the period has an end (be it in the future); without
\* an end it is in-progress if the start is earlier than the current time
\* and planned if the start is at or after the current time; unknown would
\* need a period with neither, and as PV1.44 is required no emitted
\* Encounter has it.
\* ------------------------------------------------------------------------
C12_StatusFromPeriod ==
    \A enc \in EmittedEncounters :
       /\ IsSome(enc.period.start)
       /\ enc.status # "unknown"
       /\ enc.status = "finished" <=> IsSome(enc.period.end)
       /\ enc.status = "in-progress" <=>
             /\ ~IsSome(enc.period.end)
             /\ Earlier(enc.period.start[1].instant, ClockInstant)
       /\ enc.status = "planned" <=>
             /\ ~IsSome(enc.period.end)
             /\ ~Earlier(enc.period.start[1].instant, ClockInstant)

\* An Encounter that starts at the very current time has been emitted as
\* planned.
C12_Witness ==
    \E enc \in EmittedEncounters :
       /\ enc.status = "planned"
       /\ enc.period.start[1].instant = ClockInstant

\* The events for which an Encounter is built.
EncounterEvents == {"A01", "A02", "A03", "A04", "A05"}

\* The segment is there and ends before the field.
EndsBefore(segment, field) ==
    msg[segment].present /\ msg[segment].n < field

\* PV1.45 has no value: the field is empty or PV1 ends before it.
NoPV145 == msg["PV1"].present /\ Len(FieldOf("PV1", 45)) = 0

\* The period of an Encounter without PV1.45, by event: the end is the
\* start and the status finished for A04, there is no end for the others.
EndByEvent(enc) ==
    /\ EventCode = "A04" =>
          enc.period.end = enc.period.start /\ enc.status = "finished"
    /\ EventCode \in EncounterEvents \ {"A04"} => enc.period.end = None

\* ------------------------------------------------------------------------
\* C13: a PV1.45 that is not present, be it empty or beyond the end of
\* PV1, is no fault of its own, and the Encounter of such a message
\* has period.end = period.start and status finished for A04 and no
\* period.end for A01, A02, A03 and A05.
\* ------------------------------------------------------------------------
C13_AbsentEndByEvent ==
    pc = "done" /\ NoPV145 =>
       /\ ~(Faulted(result) /\ result.err = "Missing message field 45 in segment PV1")
       /\ \A enc \in EmittedEncounters : EndByEvent(enc)

\* ------------------------------------------------------------------------
\* C14: FhirMapper::map is deterministic: applied to the same message with
\* the same configuration and lookup tables at any other clock reading it
\* returns the very result it returned (the same Bundle, the same no-output
\* value or the same fault).
\* ------------------------------------------------------------------------
C14_ClockIndependent ==
    pc = "done" =>
       \A clock \in ClockValues :
          FhirMapper_map(msg, config, resources, clock) = result

\* A message of an Encounter-building event whose fields are valid but for
\* PV1.2, which is not 'H'; its patient has been mapped.
ValidButForPV12 ==
    /\ EventCode \in EncounterEvents
    /\ msg["PV1"] = WithField(BasePV1, 2, FieldOf("PV1", 2))
    /\ ~Begleitperson
    /\ Succeeded(p)

\* The class codes the claim gives for PV1.2.
ClassCodeOf == [I |-> "IMP", O |-> "AMB", P |-> "PRENC"]

\* ------------------------------------------------------------------------
\* C15: for an Encounter-building event with otherwise valid fields,
\* PV1.2 = I, O, P yields an Encounter of class IMP, AMB, PRENC of system
\* v3-ActCode; every other value that is not 'H', the empty one included,
\* makes the mapping fault, and no Bundle is emitted.
\* ------------------------------------------------------------------------
C15_ClassByPV12 ==
    pc = "done" /\ ValidButForPV12 =>
       IF FieldOf("PV1", 2) \in DOMAIN ClassCodeOf
       THEN \E enc \in EmittedEncounters :
               /\ enc.class.system = "http://terminology.hl7.org/CodeSystem/v3-ActCode"
               /\ enc.class.code = ClassCodeOf[FieldOf("PV1", 2)]
       ELSE Faulted(result)

\* The Kontaktart codes the claim gives for PV1.2.
KontaktartCodeOf == [TS |-> "teilstationaer", NS |-> "nachstationaer", UB |-> "ub"]

\* ------------------------------------------------------------------------
\* C16: every emitted Encounter has exactly one type CodeableConcept whose
\* first Coding is the Kontaktebene coding 'einrichtungskontakt'; with
\* PV1.2 = TS, NS, UB the Encounter is emitted with a second Coding of
\* kontaktart-de (teilstationaer, nachstationaer, ub), and with PV1.2 = I
\* or O there is no second Coding.
\* ------------------------------------------------------------------------
C16_TypeCodings ==
    /\ \A enc \in EmittedEncounters :
          /\ Len(enc.type) = 1
          /\ enc.type[1][1].coding[1][1].code = "einrichtungskontakt"
          /\ FieldOf("PV1", 2) \in {"I", "O"} => Len(enc.type[1][1].coding) = 1
    /\ pc = "done" /\ ValidButForPV12 /\ FieldOf("PV1", 2) \in DOMAIN KontaktartCodeOf =>
          \E enc \in EmittedEncounters :
             /\ Len(enc.type[1][1].coding) = 2
             /\ enc.type[1][1].coding[2][1].system = "http://fhir.de/CodeSystem/kontaktart-de"
             /\ enc.type[1][1].coding[2][1].code = KontaktartCodeOf[FieldOf("PV1", 2)]

\* A message of a Patient-building event whose PID is valid but for the
\* multiple-birth fields, after the patient mapper has returned.
ValidButForBirth ==
    /\ Returned(p)
    /\ EventCode \in UpdateEvents \cup CreateEvents
    /\ msg["PID"] = WithField(WithField(BasePID, 24, FieldOf("PID", 24)),
                              25, FieldOf("PID", 25))

\* The patient mapper has produced a Patient whose multipleBirth is mb.
PatientWithBirth(mb) ==
    /\ Succeeded(p)
    /\ Len(p.val) = 1
    /\ p.val[1].resource.resource_type = "Patient"
    /\ p.val[1].resource.multiple_birth = mb

\* The patient mapper has returned the fault of an unexpected field.
BirthFault(field, expected) ==
    /\ Faulted(p)
    /\ p.err = "MessageContentUnexpected: " \o field \o ", expected " \o expected

\* The birth orders of the messages that are integers (of 32 bits, as a
\* FHIR integer is), with their values.
BirthOrders ==
    (<< 2 >> :> 2) @@ (<< 1, 2 >> :> 12) @@ (<< Plus, 2 >> :> 2)
      @@ (<< Minus, 1 >> :> -1)

\* The multiple-birth table of the tests for flag J and N.
BirthTable(flag, number) ==
    IF Len(number) = 0
    THEN /\ flag = "" => PatientWithBirth(None)
         /\ flag = "J" => PatientWithBirth(Some([kind |-> "Boolean", value |-> TRUE]))
         /\ flag = "N" => PatientWithBirth(Some([kind |-> "Boolean", value |-> FALSE]))
    ELSE /\ flag = "J" /\ number \in DOMAIN BirthOrders =>
              PatientWithBirth(Some([kind |-> "Integer", value |-> BirthOrders[number]]))
         /\ flag = "J" /\ number \notin DOMAIN BirthOrders =>
              BirthFault("Birth number PID.25", "Integer value")
         /\ flag = "N" => BirthFault("Multibirth flag PID.24", "Y")

\* ------------------------------------------------------------------------
\* C17: map_multiple_birth as the tests assert it: PID.24 and PID.25 both
\* empty give no multipleBirth; J alone gives boolean true and N alone
\* boolean false; J with an integer n gives integer n; N with a PID.25, and
\* J with a PID.25 that is no integer, are faults, and no Patient is
\* produced.
\* ------------------------------------------------------------------------
C17_MultipleBirthTable ==
    ValidButForBirth => BirthTable(FieldOf("PID", 24), FieldOf("PID", 25))

\* The Patient of a message with PID.24 = J and PID.25 = 12 has been
\* produced with multipleBirth integer 12.
C17_Witness ==
    /\ ValidButForBirth
    /\ FieldOf("PID", 24) = "J"
    /\ Len(FieldOf("PID", 25)) = 2
    /\ PatientWithBirth(Some([kind |-> "Integer", value |-> 12]))

\* The Patient resources of the emitted Bundle.
EmittedPatients ==
    IF BundleEmitted
    THEN { Entries[i][1].resource :
             i \in { j \in 1..Len(Entries) :
                       Entries[j][1].resource.resource_type = "Patient" } }
    ELSE {}

\* With the affirmative flag alone the emitted Patient has multipleBirth
\* boolean true, with the flag and an integer birth order that integer.
AffirmativeFlag(flag) ==
    pc = "done" /\ ValidButForBirth /\ FieldOf("PID", 24) = flag =>
       IF Len(FieldOf("PID", 25)) = 0
       THEN \E patient \in EmittedPatients :
               patient.multiple_birth = Some([kind |-> "Boolean", value |-> TRUE])
       ELSE FieldOf("PID", 25) \in DOMAIN BirthOrders =>
               \E patient \in EmittedPatients :
                  patient.multiple_birth =
                     Some([kind |-> "Integer",
                           value |-> BirthOrders[FieldOf("PID", 25)]])

\* ------------------------------------------------------------------------
\* C18 as stated: the affirmative multiple-birth flag is the literal Y: a
\* message with PID.24 = Y and empty PID.25 yields Patient.multipleBirth =
\* boolean true, and PID.24 = Y with PID.25 = integer n yields integer n.
\* ------------------------------------------------------------------------
C18_AffirmativeY == AffirmativeFlag("Y")

\* C18, amended: the affirmative multiple-birth flag is the literal J: a
\* message with PID.24 = J and empty PID.25 yields Patient.multipleBirth =
\* boolean true, and PID.24 = J with PID.25 = integer n yields integer n.
C18_AffirmativeJ == AffirmativeFlag("J")

\* The Patient of a message with PID.24 = J and no PID.25 has been emitted
\* with multipleBirth boolean true.
C18_Witness ==
    /\ FieldOf("PID", 24) = "J"
    /\ Len(FieldOf("PID", 25)) = 0
    /\ \E patient \in EmittedPatients :
          patient.multiple_birth = Some([kind |-> "Boolean", value |-> TRUE])

\* ------------------------------------------------------------------------
\* C19: a PID.24 that is not empty and is neither the affirmative flag nor
\* N makes map_multiple_birth fault whatever PID.25 is, empty or present,
\* and never yields a Patient without multipleBirth; a Patient has no
\* multipleBirth only when PID.24 and PID.25 are both empty.
\* ------------------------------------------------------------------------
C19_UnsupportedFlagFaults ==
    ValidButForBirth =>
       /\ FieldOf("PID", 24) \notin {"", "J", "N"} => Faulted(p)
       /\ PatientWithBirth(None) =>
             FieldOf("PID", 24) = "" /\ Len(FieldOf("PID", 25)) = 0

\* The instant of a UTC date and time of day.
InstantAt(year, month, day, hour, minute) ==
    [day |-> DaysFromCivil(year, month, day),
     second |-> hour * 3600 + minute * 60]

\* The dateTime denotes the instant of the given UTC date and time and
\* carries the given offset from UTC, in minutes.
DenotesWithOffset(dt, utc, offset) ==
    dt.instant = utc /\ dt.offset = offset

\* ------------------------------------------------------------------------
\* C20: parse_datetime reads a 12-digit input as Europe/Berlin local time:
\* the value denotes the instant local time minus Berlin's offset
\* (200903301036 is 2009-03-30 08:36 UTC) and carries Berlin's offset for
\* that instant, +02:00 in summer time and +01:00 otherwise, so that
\* 200903301036 is rendered 2009-03-30T10:36:00+02:00 and 202511022120 is
\* rendered 2025-11-02T21:20:00+01:00.
\* ------------------------------------------------------------------------
C20_BerlinOffset ==
    \A enc \in EmittedEncounters :
       /\ FieldOf("PV1", 44) = T3 =>
             DenotesWithOffset(enc.period.start[1], InstantAt(2009, 3, 30, 8, 36), 120)
       /\ FieldOf("PV1", 44) = T1 =>
             DenotesWithOffset(enc.period.start[1], InstantAt(2025, 11, 2, 20, 20), 60)

\* A message of an Encounter-building event whose fields are valid but for
\* PV1.44; its patient has been mapped and the mapping has ended.
ValidButForPV144 ==
    /\ pc = "done"
    /\ EventCode \in EncounterEvents
    /\ msg["PV1"] = WithField(BasePV1, 44, FieldOf("PV1", 44))
    /\ Len(FieldOf("PV1", 44)) > 0
    /\ Succeeded(p)

\* The Encounter has been emitted and starts at the instant.
StartsAt(instant) ==
    \E enc \in EmittedEncounters : enc.period.start[1].instant = instant

\* The mapping has ended with the formatting fault.
FormattingFault(kind) ==
    Faulted(result) /\ result.err = "FormattingError: " \o kind

\* ------------------------------------------------------------------------
\* C21 as stated: a local time that occurs twice in Europe/Berlin is read
\* as the earlier of its two instants, a local time that does not occur is
\* resolved to an instant as well, without a fault; only empty or malformed
\* input is a formatting fault.
\* ------------------------------------------------------------------------
C21_TransitionsResolve ==
    ValidButForPV144 =>
       /\ FieldOf("PV1", 44) = T4 => StartsAt(InstantAt(2025, 10, 26, 0, 30))
       /\ FieldOf("PV1", 44) = T5 => ~Faulted(result)
       /\ Faulted(result) => FormattingFault("ParseError")

\* C21, amended: a local time that occurs twice is read as the earlier of
\* its two instants; a local time that does not occur is a formatting fault
\* (InvalidDate), malformed input is one (ParseError), and so is an input
\* whose signed year puts the instant outside the years -9999 to 9999
\* (ComponentRange, or InvalidDate where the date library holds no instant
\* for the local time); every other input, up to the last minute of the
\* year 9999, is resolved without a fault.
C21_GapFaults ==
    ValidButForPV144 =>
       /\ FieldOf("PV1", 44) = T4 => StartsAt(InstantAt(2025, 10, 26, 0, 30))
       /\ FieldOf("PV1", 44) = T5 => FormattingFault("InvalidDate")
       /\ FieldOf("PV1", 44) = << 2,0,2,5 >> => FormattingFault("ParseError")
       /\ FieldOf("PV1", 44) = T9 => FormattingFault("ComponentRange")
       /\ FieldOf("PV1", 44) = T8 =>
             FormattingFault("InvalidDate") \/ FormattingFault("ComponentRange")
       /\ FieldOf("PV1", 44) = T10 => StartsAt(InstantAt(9999, 12, 31, 22, 59))
       /\ FieldOf("PV1", 44) \notin { T5, T8, T9, << 2,0,2,5 >> } =>
             ~Faulted(result)

\* The Encounter of a message whose PV1.44 is the repeated 02:30 of
\* 26 October 2025 has been emitted, starting at 00:30 UTC.
C21_Witness ==
    /\ ValidButForPV144
    /\ FieldOf("PV1", 44) = T4
    /\ StartsAt(InstantAt(2025, 10, 26, 0, 30))

\* The record at the offset holds a message that maps to a Bundle.
YieldsBundle(offset) ==
    With(deserialize_message(partition[offset + 1]), LAMBDA payload :
      /\ IsSome(payload)
      /\ With(FhirMapper_map_text(payload[1], config, resources, now),
              LAMBDA mapped : mapped.ok /\ IsSome(mapped.val)))

\* The Bundle of the record at the offset has been published.
Published(offset) ==
    \E i \in DOMAIN output : output[i].offset = offset

\* ------------------------------------------------------------------------
\* C22: the position stored for the partition, which is cumulative, never
\* passes a record whose mapping yields a Bundle unless that Bundle has
\* been published to the output topic, whatever the sequence of records
\* and of publish outcomes.
\* ------------------------------------------------------------------------
C22_NoCommitPastUnpublished ==
    \A offset \in 0..(stored - 1) :
       YieldsBundle(offset) => Published(offset)

\* encounter::map applied to the message of the state.
EncounterMapped == encounter_map(msg, config, resources, now)

\* PV1.2 has no value: PV1 is missing, ends before field 2, or the field
\* is empty.
NoPV12 == FieldOf("PV1", 2) = ""

\* ------------------------------------------------------------------------
\* C23: the encounter mapper returns exactly one Encounter entry for
\* A01..A05 when PV1.2 is not 'H', and an empty list without fault for
\* every other event of the enumerated set, so that A06, A07, A08 and A31
\* yield a Bundle with the Patient entry alone and A34 and A40 one with the
\* Patch entry alone; with PV1.2 = 'H' it returns an empty list whatever
\* the event type is; a missing PV1 or PV1.2 is not taken as 'H'.
\* ------------------------------------------------------------------------
C23_EncounterDispatch ==
    /\ Succeeded(e) /\ EventCode \in EncounterEvents /\ ~Begleitperson =>
          /\ Len(e.val) = 1
          /\ e.val[1].resource.resource_type = "Encounter"
    /\ EventCode \in EventCodes \ EncounterEvents => EncounterMapped = Ok(<<>>)
    /\ Returned(e) /\ EventCode \notin EncounterEvents => e = Ok(<<>>)
    /\ BundleEmitted /\ EventCode \in {"A06", "A07", "A08", "A31"} =>
          /\ Len(Entries) = 1
          /\ Entries[1][1].resource.resource_type = "Patient"
    /\ BundleEmitted /\ EventCode \in {"A34", "A40"} =>
          /\ Len(Entries) = 1
          /\ Entries[1][1].resource.resource_type = "Parameters"
          /\ Entries[1][1].request.method = "PATCH"
    /\ Begleitperson => EncounterMapped = Ok(<<>>)
    /\ NoPV12 /\ EventCode \in EncounterEvents => ~EncounterMapped.ok

\* The Bundle of an A08 whose PV1.2 is not 'H' has been emitted with the
\* Patient entry alone, the encounter mapper having returned an empty list.
C23_Witness ==
    /\ BundleEmitted
    /\ EventCode = "A08"
    /\ FieldOf("PV1", 2) = "I"
    /\ e = Ok(<<>>)
    /\ Len(Entries) = 1

\* Component i of the raw PV1.3, "" when PV1.3 is empty or shorter.
LocationPart(i) ==
    IF Len(FieldOf("PV1", 3)) >= i THEN FieldOf("PV1", 3)[i] ELSE ""

\* The department code the claim selects from f = PV1.3.4, l = PV1.3.1 and
\* s = PV1.3.5; "" for none.
SelectedDepartment(f, l, s) ==
    IF f # "" /\ l # "" THEN f
    ELSE IF l # "" THEN l
    ELSE IF f # "" /\ s # "" THEN s
    ELSE ""

\* The department fields of the Encounter of the message, by the code
\* selected: both set and taken from the table, none set, or a fault.
DepartmentFields(code) ==
    IF code = ""
    THEN \E enc \in EmittedEncounters :
            enc.service_type = None /\ enc.service_provider = None
    ELSE IF code \in DOMAIN resources.department_map
    THEN \E enc \in EmittedEncounters :
            /\ IsSome(enc.service_type)
            /\ enc.service_type[1].coding[1][1].code =
                  resources.department_map[code].fachabteilungs_schluessel
            /\ IsSome(enc.service_provider)
    ELSE Faulted(result)

\* ------------------------------------------------------------------------
\* C24: the department code selected from PV1.3 with f = component 4,
\* l = component 1, s = component 5 is f if f and l are present, l if l is
\* present and f absent, s if f and s are present and l absent, and none
\* otherwise; the Encounter has serviceType and serviceProvider both when
\* the code is in the department table, neither when none is selected, and
\* the mapping faults when the code is not in the table.
\* ------------------------------------------------------------------------
C24_DepartmentSelection ==
    /\ pc = "done"
    /\ EventCode \in EncounterEvents
    /\ Succeeded(p)
    /\ msg["PV1"] = WithField(BasePV1, 3, FieldOf("PV1", 3))
    => DepartmentFields(SelectedDepartment(LocationPart(4), LocationPart(1),
                                           LocationPart(5)))

\* The Encounter of a message with PV1.3 = ^^^CHI^POL has been emitted with
\* the department of the status component, POL (0800).
C24_Witness ==
    /\ LocationPart(1) = "" /\ LocationPart(4) = "CHI" /\ LocationPart(5) = "POL"
    /\ \E enc \in EmittedEncounters :
          /\ IsSome(enc.service_type)
          /\ enc.service_type[1].coding[1][1].code = "0800"
          /\ IsSome(enc.service_provider)

\* The two identifiers of an Encounter with the visit number: the site
\* specific one, usual, and the common one, official and of type VN.
VisitIdentifiers(number) ==
    << Some([use |-> Some("usual"),
             system |-> Some(config.fall.einrichtungskontakt.system),
             value |-> Some(number),
             type |-> None]),
       Some([use |-> Some("official"),
             system |-> Some(config.fall.system),
             value |-> Some(number),
             type |-> Some([coding |-> << Some(
                [system |-> "http://terminology.hl7.org/CodeSystem/v2-0203",
                 code |-> "VN", display |-> ""]) >>])]) >>

\* ------------------------------------------------------------------------
\* C25: each emitted Encounter has exactly two identifiers with the same
\* visit number: first {system = fall.einrichtungskontakt.system, use =
\* usual}, then {system = fall.system, use = official, type v2-0203 VN};
\* the request url of its entry is built from the first.  The visit number
\* is PID.4 for A14 and PV1.19 for every other event, and an empty visit
\* number makes the mapping fault.
\* ------------------------------------------------------------------------
C25_VisitIdentifiers ==
    /\ BundleEmitted =>
          \A i \in 1..Len(Entries) :
             Entries[i][1].resource.resource_type = "Encounter" =>
                /\ Entries[i][1].resource.identifier =
                      VisitIdentifiers(FieldOf("PV1", 19))
                /\ Entries[i][1].request.url =
                      "Encounter?identifier="
                        \o config.fall.einrichtungskontakt.system
                        \o "|" \o FieldOf("PV1", 19)
    /\ EventCode = "A14" /\ msg["PID"].present =>
          map_visit_number(msg) =
             IF EndsBefore("PID", 4)
             THEN Err("Missing message field 4 in segment PID")
             ELSE IF FieldOf("PID", 4) = ""
             THEN Err("empty visit number in PID.4")
             ELSE Ok(FieldOf("PID", 4))
    /\ /\ pc = "done" /\ Succeeded(p)
       /\ EventCode \in EncounterEvents /\ ~Begleitperson
       /\ msg["PV1"].present /\ FieldOf("PV1", 19) = ""
       => Faulted(result)

\* An Encounter has been emitted under a configuration whose two systems
\* differ, while PID.4 is not the visit number of PV1.19.
C25_Witness ==
    /\ config.fall.einrichtungskontakt.system # ""
    /\ FieldOf("PID", 4) = "77777777"
    /\ \E enc \in EmittedEncounters :
          enc.identifier = VisitIdentifiers("88888888")

\* A message of a Patient-building event whose PID is valid but for the
\* deceased fields, after the patient mapper has returned.
ValidButForDeceased ==
    /\ Returned(p)
    /\ EventCode \in UpdateEvents \cup CreateEvents
    /\ msg["PID"] = WithField(WithField(BasePID, 29, FieldOf("PID", 29)),
                              30, FieldOf("PID", 30))

\* The patient mapper has produced a Patient whose deceased is d.
PatientDeceased(d) ==
    /\ Succeeded(p)
    /\ Len(p.val) = 1
    /\ p.val[1].resource.resource_type = "Patient"
    /\ p.val[1].resource.deceased = d

\* The deceased of the Patient by the time of death and the confirmation.
DeceasedTable(death_time, death_confirm) ==
    IF Len(death_time) > 0
    THEN /\ death_time = T1 =>
              PatientDeceased(Some([kind |-> "DateTime",
                                    value |-> [instant |-> InstantAt(2025, 11, 2, 20, 20),
                                               offset |-> 0]]))
         /\ death_time # T1 => Faulted(p) /\ p.err = "FormattingError: ParseError"
    ELSE /\ death_confirm = "Y" =>
              PatientDeceased(Some([kind |-> "Boolean", value |-> TRUE]))
         /\ death_confirm = "" => PatientDeceased(None)
         /\ death_confirm \notin {"", "Y"} =>
              PatientDeceased(Some([kind |-> "Boolean", value |-> FALSE]))

\* ------------------------------------------------------------------------
\* C26: Patient.deceased: a PID.29 that is not empty gives the dateTime
\* parsed from it whatever PID.30 is, and is a fault when it cannot be
\* parsed, even with PID.30 = Y; with PID.29 empty, PID.30 = Y gives
\* boolean true, an empty PID.30 no deceased, and any other PID.30 boolean
\* false.
\* ------------------------------------------------------------------------
C26_DeceasedTable ==
    ValidButForDeceased => DeceasedTable(FieldOf("PID", 29), FieldOf("PID", 30))

\* The Patient of a message with PID.29 = 202511022120 and PID.30 = N has
\* been produced with the time of death.
C26_Witness ==
    /\ ValidButForDeceased
    /\ FieldOf("PID", 30) = "N"
    /\ Len(FieldOf("PID", 29)) = 12
    /\ PatientDeceased(Some([kind |-> "DateTime",
                             value |-> [instant |-> InstantAt(2025, 11, 2, 20, 20),
                                        offset |-> 0]]))

\* The segment with empty fields added up to field n.
PaddedTo(seg, n) ==
    IF seg.present /\ seg.n < n THEN [seg EXCEPT !.n = n] ELSE seg

\* The message of the state with the fields its PID and PV1 segments end
\* before present and empty (up to PID.30 and PV1.45).
PaddedMessage ==
    [msg EXCEPT !["PID"] = PaddedTo(@, 30), !["PV1"] = PaddedTo(@, 45)]

\* A segment of the message ends before an optional field and after the
\* required ones: PID between field 5 and 29, PV1 at field 44.
EndsBeforeOptional ==
    \/ EndsBefore("PID", 30) /\ ~EndsBefore("PID", 5)
         /\ (msg["PV1"].present => ~EndsBefore("PV1", 44))
    \/ EndsBefore("PV1", 45) /\ ~EndsBefore("PV1", 44)
         /\ (msg["PID"].present => ~EndsBefore("PID", 5))

\* ------------------------------------------------------------------------
\* C27: a field that is empty and a field the segment ends before are not
\* present alike: a message whose segment ends before an optional field
\* (PID.6, 7, 8, 11, 16, 24, 25, 29, 30, PV1.45) is mapped exactly like the
\* same message with the field present and empty, and does not fail for
\* it; only a missing segment or required field is a fault.
\* ------------------------------------------------------------------------
C27_AbsentLikeEmpty ==
    pc = "done" /\ EndsBeforeOptional =>
       result = FhirMapper_map(PaddedMessage, config, resources, now)

\* Component i of the raw PID.5, "" when PID.5 is empty or shorter.
NamePart(i) ==
    IF Len(FieldOf("PID", 5)) >= i THEN FieldOf("PID", 5)[i] ELSE ""

\* The url of the family extension the claim gives, "" for none.
FamilyExtensionUrl ==
    IF NamePart(5) # "" THEN "http://hl7.org/fhir/StructureDefinition/humanname-own-prefix"
    ELSE IF NamePart(4) # "" THEN "http://fhir.de/StructureDefinition/humanname-namenszusatz"
    ELSE ""

\* The name is the one of PID.5 as the claim gives it.
IsPrimaryName(name) ==
    /\ name.family = Some(NamePart(1))
    /\ name.given = << Some(NamePart(2)) >>
    /\ IF FamilyExtensionUrl = "" THEN name.family_ext = None
       ELSE IsSome(name.family_ext) /\ name.family_ext[1].url = FamilyExtensionUrl

\* The names are those of the claim: the name of PID.5 first when PID.5 is
\* not empty, the maiden name last when PID.6 is not empty.
NamesOfClaim(names) ==
    /\ Len(FieldOf("PID", 5)) > 0 =>
          Len(names) >= 1 /\ IsPrimaryName(names[1][1])
    /\ FieldOf("PID", 6) # "" =>
          /\ Len(names) = (IF Len(FieldOf("PID", 5)) > 0 THEN 2 ELSE 1)
          /\ names[Len(names)][1].use = Some("maiden")
          /\ names[Len(names)][1].family = Some(FieldOf("PID", 6))

\* ------------------------------------------------------------------------
\* C28: whenever PID.6 is not empty the names of the Patient hold a
\* HumanName with use maiden and family PID.6, after the name of PID.5, and
\* also when PID.5 is empty; when PID.5 is not empty the first name has
\* family = component 1, given = [component 2] and the family extension
\* humanname-own-prefix if component 5 is present, else
\* humanname-namenszusatz if component 4 is present, else none.
\* ------------------------------------------------------------------------
C28_PatientNames ==
    /\ Succeeded(p)
    /\ EventCode \in UpdateEvents \cup CreateEvents
    /\ msg["PID"] = WithField(WithField(BasePID, 5, FieldOf("PID", 5)),
                              6, FieldOf("PID", 6))
    => NamesOfClaim(p.val[1].resource.name)

\* ------------------------------------------------------------------------
\* C29: mapping is all-or-nothing per message. If the patient mapper
\* succeeds and the encounter mapper faults, FhirMapper::map returns that
\* fault, neither a Bundle nor the no-output value; if the patient mapper
\* faults, map returns its fault and no result of the encounter mapper is
\* emitted (the encounter mapper is not run).
\* ------------------------------------------------------------------------
C29_AllOrNothing ==
    /\ Succeeded(p) /\ Faulted(e) =>
          /\ pc = "done"
          /\ result = Err(e.err)
          /\ FhirMapper_map(msg, config, resources, now) = Err(e.err)
    /\ Faulted(p) =>
          /\ pc = "done"
          /\ ~Returned(e)
          /\ result = Err(p.err)
          /\ FhirMapper_map(msg, config, resources, now) = Err(p.err)

\* A message whose patient mapper yielded a Patient entry and whose
\* encounter mapper faulted has been mapped to the fault.
C29_Witness ==
    /\ pc = "done"
    /\ Succeeded(p) /\ Len(p.val) > 0
    /\ Faulted(e)
    /\ result = Err(e.err)

\* The step takes the next record of the partition in hand.
TakesRecord == cursor' = cursor + 1

\* The payload of record number i (from 1) and its mapping.
PayloadAt(i) == deserialize_message(partition[i])

MappedAt(i) == FhirMapper_map_text(PayloadAt(i)[1], config, resources, now)

\* Record number i is a tombstone / is mapped to a fault.
IsTombstone(i) == ~IsSome(PayloadAt(i))

MapsToFault(i) == IsSome(PayloadAt(i)) /\ ~MappedAt(i).ok

\* ------------------------------------------------------------------------
\* C30: in the consume loop of one worker the records are handled one at a
\* time in input order: a record is taken only when the handling of the one
\* before is over, and whatever is published or stored belongs to the
\* record in hand. A mapping fault on a record ends the loop: run returns
\* the fault, the record's offset is not stored, nothing is published for
\* it, and afterwards nothing is taken, published or stored. A tombstone
\* (absent or undecodable payload) and a failed publish leave the loop
\* running, ready for the next record.
\* ------------------------------------------------------------------------
C30_FaultEndsLoop ==
    [][ /\ cursor' \in {cursor, cursor + 1}
        /\ TakesRecord => worker = "polling" /\ sending = None
        /\ output' # output =>
              /\ ~TakesRecord
              /\ output' = Append(output, [offset |-> cursor - 1,
                                           payload |-> sending[1]])
        /\ stored' # stored => stored' = cursor' /\ worker' = "polling"
        /\ TakesRecord /\ MapsToFault(cursor + 1) =>
              /\ worker' = "returned"
              /\ run_result' = Err(MappedAt(cursor + 1).err)
              /\ stored' = stored
              /\ output' = output
              /\ sending' = None
        /\ worker = "returned" =>
              UNCHANGED <<cursor, stored, output, sending, worker, run_result>>
        /\ TakesRecord /\ IsTombstone(cursor + 1) =>
              /\ worker' = "polling"
              /\ UNCHANGED <<stored, output, sending, run_result>>
        /\ worker = "sending" /\ output' = output =>
              /\ worker' = "polling"
              /\ UNCHANGED <<cursor, stored, run_result>>
      ]_vars

\* The first record was mapped to a Bundle whose publish failed, the second
\* to a fault that run returned; nothing is stored or published, and a
\* third record is left in the partition.
C30_Witness ==
    /\ Len(partition) = 3
    /\ cursor = 2
    /\ IsSome(PayloadAt(1)) /\ MappedAt(1).ok /\ IsSome(MappedAt(1).val)
    /\ MapsToFault(2)
    /\ worker = "returned"
    /\ run_result = Err(MappedAt(2).err)
    /\ stored = 0
    /\ output = <<>>

=============================================================================
